---------------------------- MODULE Spec2Model ----------------------------
(***************************************************************************)
(* A model of the legal assistant's hybrid store (src/database/db_manager  *)
(* .py, src/database/schema.py) and of the article segmenter               *)
(* (src/scraper/labor_law_scraper.py).                                     *)
(*                                                                         *)
(* Text is a tuple of code points, so that sorting, prefix tests, string   *)
(* comparison in SQL and the character sum behind the hash embedding are   *)
(* computed as the code computes them.  A Python value is a record         *)
(* [t |-> type name, v |-> payload tuple]; an SQLite value is a record     *)
(* [t |-> storage class, v |-> payload tuple].                             *)
(***************************************************************************)
EXTENDS Integers, Sequences, FiniteSets, TLC

VARIABLES
    db,        \* committed content of the SQLite file: the rows of every table it has
    vec,       \* the Chroma collection: records in insertion order
    w,         \* the writer inside add_document: position, document object, open transaction
    nuuid,     \* number of uuid.uuid4() calls made so far
    nputs,     \* number of add_document calls started
    namend,    \* number of add_amendment calls made
    lastPut,   \* outcome of the latest add_document call, with the stores as they were at call time
    lastAmend, \* the latest add_amendment call: its outcome or its open transaction, and the store at call time
    rd,        \* a reader between two statements of search_similar or get_document_by_id
    obs,       \* what the latest read, clear or constructor call came to, until its caller has it
    sg,        \* the segmenter: input lines, loop position, buffer, segments, output
    imp,       \* import_from_json: the records of the file and the position in them
    cl,        \* clear_databases or the constructor: the position in the call and the table names read
    master,    \* the names of the tables of the file in the order of the rows of sqlite_master
    coll       \* whether the Chroma collection exists

vars == <<db, vec, w, nuuid, nputs, namend, lastPut, lastAmend, rd, obs, sg, imp, cl, master, coll>>

dbvars == <<db, vec, w, nuuid, nputs, namend, lastPut, lastAmend, rd, obs, imp, cl, master, coll>>

-----------------------------------------------------------------------------
(* Bounds of the model *)

MaxPuts == 2

MaxAmend == 2

MaxK == 2

MaxLines == 3

MaxClears == 2

MaxOpens == 1

-----------------------------------------------------------------------------
(* Text *)

RECURSIVE SumOrd(_)
SumOrd(s) == IF s = <<>> THEN 0 ELSE Head(s) + SumOrd(Tail(s))

\* s < t in code point order (Python str comparison, SQLite BINARY collation)
LexLess(s, t) ==
    \E i \in 1..(Len(s) + 1) :
        /\ \A j \in 1..(i - 1) : j <= Len(t) /\ s[j] = t[j]
        /\ \/ i = Len(s) + 1 /\ Len(t) >= i
           \/ i <= Len(s) /\ i <= Len(t) /\ s[i] < t[i]

LexLeq(s, t) == s = t \/ LexLess(s, t)

StartsWith(s, p) == Len(s) >= Len(p) /\ SubSeq(s, 1, Len(p)) = p

\* the elements of a finite set of texts in ascending order
RECURSIVE SortTexts(_)
SortTexts(S) ==
    IF S = {} THEN <<>>
    ELSE LET m == CHOOSE x \in S : \A y \in S : LexLeq(x, y)
         IN  <<m>> \o SortTexts(S \ {m})

Range(f) == {f[i] : i \in DOMAIN f}

-----------------------------------------------------------------------------
(* Python values and SQLite values *)

PyNone == [t |-> "NoneType", v |-> <<>>]

PyStr(s) == [t |-> "str", v |-> s]

PyBool(b) == [t |-> "bool", v |-> IF b THEN <<1>> ELSE <<0>>]

PyInt(n) == [t |-> "int", v |-> <<n>>]

\* datetime.datetime of day d at hour h (minutes, seconds and microseconds 0)
PyDatetime(d, h) == [t |-> "datetime", v |-> <<d, h>>]

\* datetime.date of day d
PyDate(d) == [t |-> "date", v |-> <<d>>]

\* Python ==  (bool is a subclass of int: True == 1)
PyEq(a, b) ==
    \/ a = b
    \/ a.t \in {"bool", "int"} /\ b.t \in {"bool", "int"} /\ a.v = b.v

\* Python truthiness of None, str and datetime values
Falsy(x) == x.t = "NoneType" \/ (x.t = "str" /\ x.v = <<>>)

\* datetime.isoformat(): "YYYY-MM-DD" "T" "HH:MM:SS".  The fixed-width date
\* part is the day number and the fixed-width time part the hour, so tuple
\* order is string order; 84 is ord("T").
IsoFormat(x) == PyStr(<<x.v[1], 84, x.v[2]>>)

SqlNull == [t |-> "NULL", v |-> <<>>]

SqlText(s) == [t |-> "TEXT", v |-> s]

\* sqlite3's adaptation of a bound parameter: None -> NULL, str -> TEXT,
\* bool/int -> INTEGER, and the default adapters date -> "YYYY-MM-DD",
\* datetime -> "YYYY-MM-DD HH:MM:SS" (a space, 32, where isoformat has "T")
Adapt(x) ==
    CASE x.t = "NoneType" -> SqlNull
      [] x.t = "str"      -> SqlText(x.v)
      [] x.t = "bool"     -> [t |-> "INTEGER", v |-> x.v]
      [] x.t = "int"      -> [t |-> "INTEGER", v |-> x.v]
      [] x.t = "date"     -> SqlText(x.v)
      [] x.t = "datetime" -> SqlText(<<x.v[1], 32, x.v[2]>>)

\* the Python value sqlite3 returns for a column value
FromSql(c) ==
    CASE c.t = "NULL"    -> PyNone
      [] c.t = "TEXT"    -> PyStr(c.v)
      [] c.t = "INTEGER" -> PyInt(c.v[1])

\* SQL comparison operators on two values: NULL compares to nothing; two
\* TEXT values compare as strings
SqlEq(a, b) == a.t # "NULL" /\ b.t # "NULL" /\ a = b

SqlGe(a, b) == a.t = "TEXT" /\ b.t = "TEXT" /\ LexLeq(b.v, a.v)

SqlLe(a, b) == a.t = "TEXT" /\ b.t = "TEXT" /\ LexLeq(a.v, b.v)

\* str(uuid.uuid4()) at the n-th call: a text no caller-supplied id equals
Uuid4(n) == PyStr(<<0 - n>>)


-----------------------------------------------------------------------------
(* The relational store: the five tables of SQL_SCHEMA *)

EmptyTables ==
    [documents |-> <<>>,   \* rows of legal_documents in rowid order
     tags      |-> {},     \* rows of document_tags
     articles  |-> <<>>,   \* rows of legal_articles in rowid order
     amendments |-> <<>>,  \* rows of legal_amendments in rowid order
     affected  |-> {}]     \* rows of amendment_affected_articles

\* the tables of SQL_SCHEMA in the order of the dictionary, which is the order
\* of the CREATE TABLE statements and of the rows of sqlite_master
SqlSchema == <<"documents", "articles", "tags", "amendments", "affected">>

\* the file has the table; a statement that names a table it does not have
\* raises OperationalError (no such table)
TableExists(T, name) == name \in DOMAIN T

\* PRIMARY KEY (id) and the NOT NULL columns of legal_documents
DocumentRowOk(T, row) ==
    /\ \A r \in Range(T.documents) : r.id # row.id
    /\ row.title.t # "NULL"
    /\ row.document_type.t # "NULL"
    /\ row.source_url.t # "NULL"
    /\ row.date_scraped.t # "NULL"
    /\ row.is_current.t # "NULL"

\* PRIMARY KEY (document_id, tag) and the NOT NULL columns of document_tags
TagRowOk(T, row) ==
    /\ row \notin T.tags
    /\ row.document_id.t # "NULL"
    /\ row.tag.t # "NULL"

\* PRIMARY KEY (id) and the NOT NULL columns of legal_articles.  The FOREIGN
\* KEY clause is not enforced: no connection sets PRAGMA foreign_keys.
ArticleRowOk(T, row) ==
    /\ \A r \in Range(T.articles) : r.id # row.id
    /\ row.law_id.t # "NULL"
    /\ row.number.t # "NULL"
    /\ row.content.t # "NULL"

\* "if document.tags:" and cursor.executemany of the tag INSERTs: the rows
\* go in one after the other; ok is FALSE when the table is missing or one
\* of the rows violates a constraint
RECURSIVE InsertTags(_, _)
InsertTags(T, rows) ==
    IF rows = <<>> THEN [ok |-> TRUE, tables |-> T]
    ELSE IF ~TableExists(T, "tags") THEN [ok |-> FALSE, tables |-> T]
    ELSE IF ~TagRowOk(T, Head(rows)) THEN [ok |-> FALSE, tables |-> T]
    ELSE InsertTags([T EXCEPT !.tags = @ \cup {Head(rows)}], Tail(rows))

-----------------------------------------------------------------------------
(* The vector index *)

\* SimpleEmbeddings._hash_embed: the vector is drawn from a generator seeded
\* with the sum of the code points, so the seed stands for the vector
HashEmbed(text) == SumOrd(text)

\* f"{article.id}_embedding"
EmbeddingId(articleId) ==
    PyStr(articleId.v \o <<95, 101, 109, 98, 101, 100, 100, 105, 110, 103>>)

HasRecord(V, id) == \E i \in DOMAIN V : V[i].id = id

\* collection.add of one record; a record whose id the collection already
\* holds is left as it is
CollectionAdd(V, rec) == IF HasRecord(V, rec.id) THEN V ELSE Append(V, rec)

-----------------------------------------------------------------------------
(* add_document *)

NoDoc == [id |-> PyNone]

IdleW == [pc |-> "idle", doc |-> NoDoc, i |-> 0, tx |-> EmptyTables]

NoPut == [status |-> "none", at |-> "none", doc |-> NoDoc,
          pre |-> EmptyTables, prevec |-> <<>>]

NoObs == [op |-> "none"]

\* The write lock of the database file.  The first INSERT of a call opens a
\* transaction that holds the lock until conn.commit() or conn.rollback();
\* a statement of another connection that needs the lock waits for the
\* timeout of sqlite3.connect (5 s by default) and then raises
\* OperationalError (database is locked).  A call that gets the lock within
\* the timeout is a call made after the commit.  An add_document call that
\* has not reached its INSERT holds no lock.
WriteLocked == w.pc \notin {"idle", "called"} \/ lastAmend.status = "open"

\* the three dates bound as datetime objects, without .isoformat()
DocumentRowDatesAsGiven(doc) ==
    [id             |-> Adapt(doc.id),
     title          |-> Adapt(doc.title),
     document_type  |-> Adapt(doc.document_type),
     source_url     |-> Adapt(doc.source_url),
     date_published |-> Adapt(doc.date_published),
     date_modified  |-> Adapt(doc.date_modified),
     date_scraped   |-> Adapt(doc.date_scraped),
     is_current     |-> Adapt(doc.is_current),
     category       |-> Adapt(doc.category),
     subcategory    |-> Adapt(doc.subcategory)]

\* the parameter tuple of the INSERT INTO legal_documents
DocumentRow(doc) ==
    [id             |-> Adapt(doc.id),
     title          |-> Adapt(doc.title),
     document_type  |-> Adapt(doc.document_type),
     source_url     |-> Adapt(doc.source_url),
     date_published |-> Adapt(IF Falsy(doc.date_published) THEN PyNone
                              ELSE IsoFormat(doc.date_published)),
     date_modified  |-> Adapt(IF Falsy(doc.date_modified) THEN PyNone
                              ELSE IsoFormat(doc.date_modified)),
     date_scraped   |-> Adapt(IsoFormat(doc.date_scraped)),
     is_current     |-> Adapt(doc.is_current),
     category       |-> Adapt(doc.category),
     subcategory    |-> Adapt(doc.subcategory)]

TagRows(doc) ==
    [k \in DOMAIN doc.tags |->
        [document_id |-> Adapt(doc.id), tag |-> Adapt(doc.tags[k])]]

ArticleRow(a) ==
    [id           |-> Adapt(a.id),
     law_id       |-> Adapt(a.law_id),
     number       |-> Adapt(a.number),
     content      |-> Adapt(a.content),
     embedding_id |-> Adapt(a.embedding_id)]

EmbeddingRecord(doc, a) ==
    [id        |-> a.embedding_id,
     embedding |-> HashEmbed(a.content.v),
     metadata  |-> [article_id     |-> a.id,
                    law_id         |-> doc.id,
                    article_number |-> a.number,
                    law_title      |-> doc.title],
     document  |-> a.content]

\* a connection closed without conn.rollback(), on which the rows written so
\* far reach the file
RolledBackKeepsRows(committed, tx) == tx

\* what the database file holds once the except/finally clauses have run:
\* conn.rollback() drops every row of the open transaction
RolledBack(committed, tx) == committed

\* except: conn.rollback(); raise -- finally: conn.close()
PutRaise(at, doc) ==
    /\ db' = RolledBack(db, w.tx)
    /\ w' = IdleW
    /\ lastPut' = [lastPut EXCEPT !.status = "raised", !.at = at, !.doc = doc]

\* lines 133-134: the id of the document, drawn before the connection is
\* made.  Other calls run between this and the INSERT.  drawn is the number
\* of uuids that the caller drew to build the document.
PutBegin(doc, drawn) ==
    /\ w.pc = "idle" /\ obs.op = "none" /\ nputs < MaxPuts
    /\ nputs' = nputs + 1
    /\ LET fresh == Falsy(doc.id)
           d == IF fresh THEN [doc EXCEPT !.id = Uuid4(nuuid + drawn + 1)] ELSE doc
       IN  /\ nuuid' = IF fresh THEN nuuid + drawn + 1 ELSE nuuid + drawn
           /\ w' = [pc |-> "called", doc |-> d, i |-> 0, tx |-> db]
           /\ lastPut' = [status |-> "called", at |-> "none", doc |-> d,
                          pre |-> db, prevec |-> vec]
    /\ UNCHANGED <<db, vec, namend, lastAmend, rd, obs, sg, cl, master, coll>>

\* a call of add_document by a caller of the manager
PutDocument(doc) == PutBegin(doc, 0) /\ UNCHANGED imp

\* lines 136-161: the connection and the INSERT INTO legal_documents, which
\* opens the transaction of the call.  While another transaction holds the
\* write lock the INSERT raises, and lines 215-217 raise to the caller.
\* pre and prevec are the stores as this statement finds them.
PutInsert ==
    /\ w.pc = "called" /\ obs.op = "none"
    /\ LET d == w.doc
           start == [status |-> "running", at |-> "none", doc |-> d,
                     pre |-> db, prevec |-> vec]
       IN  IF /\ d.date_scraped.t = "datetime"
              /\ ~WriteLocked
              /\ TableExists(db, "documents")
              /\ DocumentRowOk(db, DocumentRow(d))
           THEN /\ w' = [pc |-> "tags", doc |-> d, i |-> 0,
                         tx |-> [db EXCEPT !.documents = Append(@, DocumentRow(d))]]
                /\ lastPut' = start
                /\ db' = db
           ELSE /\ db' = RolledBack(db, db)
                /\ w' = IdleW
                /\ lastPut' = [start EXCEPT !.status = "raised", !.at = "document"]
    /\ UNCHANGED <<vec, nuuid, nputs, namend, lastAmend, rd, obs, sg, imp, cl, master, coll>>

PutTags ==
    /\ w.pc = "tags" /\ obs.op = "none"
    /\ LET r == InsertTags(w.tx, TagRows(w.doc))
       IN  IF r.ok
           THEN /\ w' = [w EXCEPT !.tx = r.tables,
                                  !.pc = IF w.doc.articles = <<>> THEN "commit" ELSE "embed",
                                  !.i = IF w.doc.articles = <<>> THEN 0 ELSE 1]
                /\ UNCHANGED <<db, lastPut>>
           ELSE PutRaise("tags", w.doc)
    /\ UNCHANGED <<vec, nuuid, nputs, namend, lastAmend, rd, obs, sg, imp, cl, master, coll>>

\* lines 174-194 without article.law_id = document.id at line 177
PutEmbedKeepsLawId(rejectsNone) ==
    /\ w.pc = "embed" /\ obs.op = "none"
    /\ LET a0 == w.doc.articles[w.i]
           fresh == Falsy(a0.id)
           a1 == [a0 EXCEPT !.id = IF fresh THEN Uuid4(nuuid + 1) ELSE a0.id]
           a2 == [a1 EXCEPT !.embedding_id = EmbeddingId(a1.id)]
           embedded == a1.content.t = "str"
           a == IF embedded THEN a2 ELSE a1
           d == [w.doc EXCEPT !.articles[w.i] = a]
           added == embedded /\ coll /\ ~(rejectsNone /\ a.number.t = "NoneType")
       IN  /\ nuuid' = IF fresh THEN nuuid + 1 ELSE nuuid
           /\ IF added
              THEN /\ vec' = CollectionAdd(vec, EmbeddingRecord(d, a))
                   /\ w' = [w EXCEPT !.doc = d, !.pc = "row"]
                   /\ UNCHANGED <<db, lastPut>>
              ELSE /\ vec' = vec
                   /\ PutRaise("embed", d)
    /\ UNCHANGED <<nputs, namend, lastAmend, rd, obs, sg, imp, cl, master, coll>>

\* lines 174-194: id, law_id, embedding, embedding_id, collection.add.
\* Chroma releases differ on a None metadata value: some raise ValueError
\* before adding, some store it; rejectsNone is that choice.  On a
\* collection that clear_databases has deleted collection.add raises.
PutEmbed(rejectsNone) ==
    /\ w.pc = "embed" /\ obs.op = "none"
    /\ LET a0 == w.doc.articles[w.i]
           fresh == Falsy(a0.id)
           a1 == [a0 EXCEPT !.id = IF fresh THEN Uuid4(nuuid + 1) ELSE a0.id,
                            !.law_id = w.doc.id]
           a2 == [a1 EXCEPT !.embedding_id = EmbeddingId(a1.id)]
           embedded == a1.content.t = "str"
           a == IF embedded THEN a2 ELSE a1
           d == [w.doc EXCEPT !.articles[w.i] = a]
           added == embedded /\ coll /\ ~(rejectsNone /\ a.number.t = "NoneType")
       IN  /\ nuuid' = IF fresh THEN nuuid + 1 ELSE nuuid
           /\ IF added
              THEN /\ vec' = CollectionAdd(vec, EmbeddingRecord(d, a))
                   /\ w' = [w EXCEPT !.doc = d, !.pc = "row"]
                   /\ UNCHANGED <<db, lastPut>>
              ELSE /\ vec' = vec
                   /\ PutRaise("embed", d)
    /\ UNCHANGED <<nputs, namend, lastAmend, rd, obs, sg, imp, cl, master, coll>>

PutArticleRow ==
    /\ w.pc = "row" /\ obs.op = "none"
    /\ LET row == ArticleRow(w.doc.articles[w.i])
           last == w.i = Len(w.doc.articles)
       IN  IF TableExists(w.tx, "articles") /\ ArticleRowOk(w.tx, row)
           THEN /\ w' = [w EXCEPT !.tx.articles = Append(@, row),
                                  !.pc = IF last THEN "commit" ELSE "embed",
                                  !.i = IF last THEN 0 ELSE w.i + 1]
                /\ UNCHANGED <<db, lastPut>>
           ELSE PutRaise("article", w.doc)
    /\ UNCHANGED <<vec, nuuid, nputs, namend, lastAmend, rd, obs, sg, imp, cl, master, coll>>

\* conn.commit(); return document.id
PutCommit ==
    /\ w.pc = "commit" /\ obs.op = "none"
    /\ db' = w.tx
    /\ lastPut' = [lastPut EXCEPT !.status = "returned", !.doc = w.doc]
    /\ w' = IdleW
    /\ UNCHANGED <<vec, nuuid, nputs, namend, lastAmend, rd, obs, sg, imp, cl, master, coll>>

-----------------------------------------------------------------------------
(* add_amendment *)

NoAmend == [status |-> "none", am |-> [id |-> PyNone], pre |-> EmptyTables,
            tx |-> EmptyTables]

AmendmentRow(am) ==
    [id             |-> Adapt(am.id),
     law_id         |-> Adapt(am.law_id),
     amendment_date |-> Adapt(IsoFormat(am.amendment_date)),
     description    |-> Adapt(am.description),
     amendment_text |-> Adapt(am.amendment_text),
     source_url     |-> Adapt(am.source_url)]

\* PRIMARY KEY (id) and the NOT NULL columns of legal_amendments; its
\* FOREIGN KEY clause is not enforced
AmendmentRowOk(T, row) ==
    /\ \A r \in Range(T.amendments) : r.id # row.id
    /\ row.law_id.t # "NULL"
    /\ row.amendment_date.t # "NULL"
    /\ row.description.t # "NULL"
    /\ row.amendment_text.t # "NULL"
    /\ row.source_url.t # "NULL"

AffectedRows(am) ==
    [k \in DOMAIN am.affected_articles |->
        [amendment_id |-> Adapt(am.id), article_id |-> Adapt(am.affected_articles[k])]]

\* PRIMARY KEY (amendment_id, article_id) and the NOT NULL columns of
\* amendment_affected_articles; neither FOREIGN KEY clause is enforced
AffectedRowOk(T, row) ==
    /\ row \notin T.affected
    /\ row.amendment_id.t # "NULL"
    /\ row.article_id.t # "NULL"

\* "if amendment.affected_articles:" and the executemany of lines 257-268
RECURSIVE InsertAffected(_, _)
InsertAffected(T, rows) ==
    IF rows = <<>> THEN [ok |-> TRUE, tables |-> T]
    ELSE IF ~TableExists(T, "affected") THEN [ok |-> FALSE, tables |-> T]
    ELSE IF ~AffectedRowOk(T, Head(rows)) THEN [ok |-> FALSE, tables |-> T]
    ELSE InsertAffected([T EXCEPT !.affected = @ \cup {Head(rows)}], Tail(rows))

\* lines 232-233: the id of the amendment, drawn before the connection is
\* made.  Other calls run between this and the INSERT.
AddAmendment(am0) ==
    /\ lastAmend.status \notin {"called", "open"} /\ obs.op = "none"
    /\ namend < MaxAmend
    /\ namend' = namend + 1
    /\ LET fresh == Falsy(am0.id)
           am == IF fresh THEN [am0 EXCEPT !.id = Uuid4(nuuid + 1)] ELSE am0
       IN  /\ nuuid' = IF fresh THEN nuuid + 1 ELSE nuuid
           /\ lastAmend' = [status |-> "called", am |-> am, pre |-> db, tx |-> db]
    /\ UNCHANGED <<db, vec, w, nputs, lastPut, rd, obs, sg, imp, cl, master, coll>>

\* lines 235-254: the connection and the INSERT INTO legal_amendments, which
\* opens the transaction of the call.  While another transaction holds the
\* write lock the INSERT raises, and lines 273-275 raise to the caller.
\* pre is the store as this statement finds it.
AddAmendmentInsert ==
    /\ lastAmend.status = "called" /\ obs.op = "none"
    /\ LET am == lastAmend.am
           rowOk == /\ am.amendment_date.t = "datetime"
                    /\ ~WriteLocked
                    /\ TableExists(db, "amendments")
                    /\ AmendmentRowOk(db, AmendmentRow(am))
       IN  IF rowOk
           THEN lastAmend' = [status |-> "open", am |-> am, pre |-> db,
                              tx |-> [db EXCEPT !.amendments = Append(@, AmendmentRow(am))]]
           ELSE lastAmend' = [status |-> "raised", am |-> am, pre |-> db,
                              tx |-> RolledBack(db, db)]
    /\ UNCHANGED <<db, vec, w, nuuid, nputs, namend, lastPut, rd, obs, sg, imp, cl, master, coll>>

\* lines 257-278: the rows of amendment_affected_articles, then conn.commit()
\* and the return of the id, or conn.rollback() and the exception
AddAmendmentAffected ==
    /\ lastAmend.status = "open" /\ obs.op = "none"
    /\ LET r == InsertAffected(lastAmend.tx, AffectedRows(lastAmend.am))
       IN  IF r.ok
           THEN /\ db' = r.tables
                /\ lastAmend' = [lastAmend EXCEPT !.status = "returned", !.tx = r.tables]
           ELSE /\ db' = RolledBack(db, r.tables)
                /\ lastAmend' = [lastAmend EXCEPT !.status = "raised",
                                                  !.tx = RolledBack(db, r.tables)]
    /\ UNCHANGED <<vec, w, nuuid, nputs, namend, lastPut, rd, obs, sg, imp, cl, master, coll>>

-----------------------------------------------------------------------------
(* Point lookups *)

\* dict(row) of a legal_documents row
DocumentDict(r) ==
    [id |-> FromSql(r.id), title |-> FromSql(r.title),
     document_type |-> FromSql(r.document_type), source_url |-> FromSql(r.source_url),
     date_published |-> FromSql(r.date_published),
     date_modified |-> FromSql(r.date_modified),
     date_scraped |-> FromSql(r.date_scraped), is_current |-> FromSql(r.is_current),
     category |-> FromSql(r.category), subcategory |-> FromSql(r.subcategory)]

\* dict(row) of a legal_articles row
ArticleDict(r) ==
    [id |-> FromSql(r.id), law_id |-> FromSql(r.law_id), number |-> FromSql(r.number),
     content |-> FromSql(r.content), embedding_id |-> FromSql(r.embedding_id)]

MapSeq(s, f(_)) == [k \in DOMAIN s |-> f(s[k])]

IdleR == [pc |-> "idle"]

\* what a lookup came to: raised is TRUE when a SELECT named a table the
\* file does not have (OperationalError, the finally clause closes the
\* connection), found is FALSE when the call returned None
NotFound == [found |-> FALSE, raised |-> FALSE]

LookupRaised == [found |-> FALSE, raised |-> TRUE]

\* lines 432-444: the rows of SELECT * FROM legal_documents WHERE id = ?
SelectDocument(T, id) ==
    LET key == Adapt(id)
        IsDoc(r) == SqlEq(r.id, key)
    IN  SelectSeq(T.documents, IsDoc)

\* lines 447-455: SELECT tag FROM document_tags WHERE document_id = ?.  The
\* query is answered from the primary-key index of document_tags, so the
\* tags come back in ascending order.
SelectTags(T, id) ==
    LET key == Adapt(id)
    IN  MapSeq(SortTexts({r.tag.v : r \in
                   {x \in T.tags : SqlEq(x.document_id, key)}}), PyStr)

\* lines 458-466: SELECT * FROM legal_articles WHERE law_id = ?
SelectArticles(T, id) ==
    LET key == Adapt(id)
        IsArt(r) == SqlEq(r.law_id, key)
    IN  MapSeq(SelectSeq(T.articles, IsArt), ArticleDict)

\* get_article_by_id: the article row joined with its document row
GetArticleById(T, id) ==
    LET key == Adapt(id)
        IsArt(r) == SqlEq(r.id, key)
        arts == SelectSeq(T.articles, IsArt)
        IsParent(r) == SqlEq(r.id, arts[1].law_id)
        docs == IF arts = <<>> THEN <<>> ELSE SelectSeq(T.documents, IsParent)
    IN  IF ~TableExists(T, "articles") \/ ~TableExists(T, "documents")
        THEN LookupRaised
        ELSE IF arts = <<>> \/ docs = <<>> THEN NotFound
        ELSE [found   |-> TRUE, raised |-> FALSE,
              article |-> ArticleDict(arts[1]),
              law_title |-> FromSql(docs[1].title),
              document_type |-> FromSql(docs[1].document_type),
              date_published |-> FromSql(docs[1].date_published),
              category |-> FromSql(docs[1].category),
              subcategory |-> FromSql(docs[1].subcategory)]

\* get_document_by_id runs its three SELECT statements outside a
\* transaction: each reads the file as it is when the statement runs, and a
\* commit of another caller can fall between two of them.

\* lines 426-444: the connection and the SELECT of the document row
GetDocument(id) ==
    /\ obs.op = "none" /\ rd.pc = "idle"
    /\ IF ~TableExists(db, "documents")
       THEN /\ obs' = [op |-> "get_document", id |-> id, out |-> LookupRaised]
            /\ rd' = rd
       ELSE IF SelectDocument(db, id) = <<>>
       THEN /\ obs' = [op |-> "get_document", id |-> id, out |-> NotFound]
            /\ rd' = rd
       ELSE /\ rd' = [pc |-> "tags", id |-> id,
                      document |-> DocumentDict(SelectDocument(db, id)[1]),
                      tags |-> <<>>]
            /\ obs' = obs
    /\ UNCHANGED <<db, vec, w, nuuid, nputs, namend, lastPut, lastAmend, sg, imp, cl, master, coll>>

\* lines 447-455: the SELECT of the tags
GetDocumentTags ==
    /\ obs.op = "none" /\ rd.pc = "tags"
    /\ IF ~TableExists(db, "tags")
       THEN /\ obs' = [op |-> "get_document", id |-> rd.id, out |-> LookupRaised]
            /\ rd' = IdleR
       ELSE /\ rd' = [rd EXCEPT !.pc = "articles", !.tags = SelectTags(db, rd.id)]
            /\ obs' = obs
    /\ UNCHANGED <<db, vec, w, nuuid, nputs, namend, lastPut, lastAmend, sg, imp, cl, master, coll>>

\* lines 458-471: the SELECT of the articles and the return
GetDocumentArticles ==
    /\ obs.op = "none" /\ rd.pc = "articles"
    /\ obs' = [op |-> "get_document", id |-> rd.id,
               out |-> IF ~TableExists(db, "articles") THEN LookupRaised
                       ELSE [found    |-> TRUE, raised |-> FALSE,
                             document |-> rd.document,
                             tags     |-> rd.tags,
                             articles |-> SelectArticles(db, rd.id)]]
    /\ rd' = IdleR
    /\ UNCHANGED <<db, vec, w, nuuid, nputs, namend, lastPut, lastAmend, sg, imp, cl, master, coll>>

GetArticle(id) ==
    /\ obs.op = "none" /\ rd.pc = "idle"
    /\ obs' = [op |-> "get_article", id |-> id, out |-> GetArticleById(db, id)]
    /\ UNCHANGED <<db, vec, w, nuuid, nputs, namend, lastPut, lastAmend, rd, sg, imp, cl, master, coll>>

\* the caller has received the value of its read
ReaderReturn ==
    /\ obs.op # "none"
    /\ obs' = NoObs
    /\ UNCHANGED <<db, vec, w, nuuid, nputs, namend, lastPut, lastAmend, rd, sg, imp, cl, master, coll>>

-----------------------------------------------------------------------------
(* search_similar *)

PyDict(f) == [t |-> "dict", v |-> f]

\* {} as a function: the dict without keys
EmptyDict == PyDict([x \in {} |-> x])

\* "if filters is not None:" in place of "if filters:"
FiltersNotNone(filters) == filters.t = "dict"

\* Python truthiness of the filters argument: None and {} are false
FiltersGiven(filters) == filters.t = "dict" /\ DOMAIN filters.v # {}

\* <<a, b, d>>: the cosine distance d, in millionths, of the two vectors
\* that _hash_embed draws for the seeds a < b, np.random.seed(s) followed
\* by np.random.uniform(-1, 1, 768), computed with the generator of the code
\* (MT19937 seeded by init_genrand, 53-bit doubles) for the seeds of the
\* texts of the model: "", "1", "2", "a", "b", "z", "u", "T1", "D1", "A1",
\* "ZZ", "M1", "hi", "ho", "law", "labor", "decree", "Unknown"
SeedDistances ==
    {<<0, 49, 997285>>, <<0, 50, 957741>>, <<0, 97, 1033488>>,
     <<0, 98, 970524>>, <<0, 114, 970524>>, <<0, 117, 986011>>,
     <<0, 122, 966503>>, <<0, 126, 985095>>, <<0, 133, 986467>>,
     <<0, 180, 992803>>, <<0, 209, 1022665>>, <<0, 215, 1001014>>,
     <<0, 324, 965017>>, <<0, 528, 985755>>, <<0, 616, 987324>>,
     <<0, 752, 1005218>>, <<49, 50, 944263>>, <<49, 97, 1034806>>,
     <<49, 98, 1027937>>, <<49, 114, 1012206>>, <<49, 117, 1048379>>,
     <<49, 122, 1000962>>, <<49, 126, 1002660>>, <<49, 133, 897085>>,
     <<49, 180, 998832>>, <<49, 209, 1073275>>, <<49, 215, 1051914>>,
     <<49, 324, 983533>>, <<49, 528, 1006728>>, <<49, 616, 1009724>>,
     <<49, 752, 975514>>, <<50, 97, 978122>>, <<50, 98, 1032819>>,
     <<50, 114, 951202>>, <<50, 117, 1027446>>, <<50, 122, 946496>>,
     <<50, 126, 953957>>, <<50, 133, 1009009>>, <<50, 180, 959037>>,
     <<50, 209, 959560>>, <<50, 215, 1028423>>, <<50, 324, 970600>>,
     <<50, 528, 1037896>>, <<50, 616, 964354>>, <<50, 752, 1024945>>,
     <<97, 98, 1049965>>, <<97, 114, 980894>>, <<97, 117, 1004649>>,
     <<97, 122, 1010801>>, <<97, 126, 991121>>, <<97, 133, 1022458>>,
     <<97, 180, 1032915>>, <<97, 209, 1034617>>, <<97, 215, 978972>>,
     <<97, 324, 973554>>, <<97, 528, 1008476>>, <<97, 616, 969701>>,
     <<97, 752, 999082>>, <<98, 114, 1029634>>, <<98, 117, 980419>>,
     <<98, 122, 1009877>>, <<98, 126, 1019742>>, <<98, 133, 976156>>,
     <<98, 180, 1024172>>, <<98, 209, 973015>>, <<98, 215, 1006737>>,
     <<98, 324, 1008403>>, <<98, 528, 1029525>>, <<98, 616, 1029473>>,
     <<98, 752, 1015804>>, <<114, 117, 974399>>, <<114, 122, 996893>>,
     <<114, 126, 1018853>>, <<114, 133, 983606>>, <<114, 180, 1011317>>,
     <<114, 209, 987026>>, <<114, 215, 990880>>, <<114, 324, 999034>>,
     <<114, 528, 1039035>>, <<114, 616, 978328>>, <<114, 752, 1018882>>,
     <<117, 122, 1009767>>, <<117, 126, 1005095>>, <<117, 133, 1027161>>,
     <<117, 180, 978318>>, <<117, 209, 1016384>>, <<117, 215, 973142>>,
     <<117, 324, 1034503>>, <<117, 528, 979829>>, <<117, 616, 978847>>,
     <<117, 752, 1010767>>, <<122, 126, 977623>>, <<122, 133, 1004180>>,
     <<122, 180, 1004218>>, <<122, 209, 1006763>>, <<122, 215, 1029663>>,
     <<122, 324, 985481>>, <<122, 528, 1084770>>, <<122, 616, 1009046>>,
     <<122, 752, 1022138>>, <<126, 133, 961423>>, <<126, 180, 1069377>>,
     <<126, 209, 1017150>>, <<126, 215, 981277>>, <<126, 324, 949509>>,
     <<126, 528, 963028>>, <<126, 616, 972616>>, <<126, 752, 1009759>>,
     <<133, 180, 998440>>, <<133, 209, 948348>>, <<133, 215, 946130>>,
     <<133, 324, 1001502>>, <<133, 528, 979728>>, <<133, 616, 1005986>>,
     <<133, 752, 1037230>>, <<180, 209, 1015446>>, <<180, 215, 1045828>>,
     <<180, 324, 997805>>, <<180, 528, 1069125>>, <<180, 616, 970428>>,
     <<180, 752, 1068586>>, <<209, 215, 984802>>, <<209, 324, 1020172>>,
     <<209, 528, 1015138>>, <<209, 616, 926617>>, <<209, 752, 922370>>,
     <<215, 324, 990875>>, <<215, 528, 1036105>>, <<215, 616, 1054547>>,
     <<215, 752, 970522>>, <<324, 528, 1051835>>, <<324, 616, 975352>>,
     <<324, 752, 1037540>>, <<528, 616, 1066662>>, <<528, 752, 1009788>>,
     <<616, 752, 946528>>}

DistanceOf ==
    [p \in {<<t[1], t[2]>> : t \in SeedDistances} |->
        (CHOOSE t \in SeedDistances : t[1] = p[1] /\ t[2] = p[2])[3]]

\* Cosine distance, in millionths, between the vectors drawn for two seeds:
\* the same seed gives the same vector (distance 0)
CosineDistance(a, b) ==
    IF a = b THEN 0
    ELSE IF a < b THEN DistanceOf[<<a, b>>] ELSE DistanceOf[<<b, a>>]

\* collection.query(n_results = k): the positions of the min(k, count)
\* nearest records in ascending order of distance; records at the same
\* distance come in an order the index chooses
QueryResults(V, qe, k) ==
    LET n == IF k < Len(V) THEN k ELSE Len(V)
        D(i) == CosineDistance(qe, V[i].embedding)
    IN  {s \in [1..n -> DOMAIN V] :
            /\ \A i, j \in 1..n : i < j => s[i] # s[j] /\ D(s[i]) <= D(s[j])
            /\ \A m \in DOMAIN V : (\A i \in 1..n : s[i] # m) =>
                                   (\A i \in 1..n : D(s[i]) <= D(m))}

\* lines 307-316 with "similarity": search_results["distances"][0][i], the
\* distance passed on as the score
FormatResultsDistance(V, qe, s) ==
    [i \in DOMAIN s |->
        [content    |-> V[s[i]].document,
         metadata   |-> V[s[i]].metadata,
         similarity |-> CosineDistance(qe, V[s[i]].embedding)]]

\* lines 307-316: content, metadata and similarity = 1 - distance, in
\* millionths
FormatResults(V, qe, s) ==
    [i \in DOMAIN s |->
        [content    |-> V[s[i]].document,
         metadata   |-> V[s[i]].metadata,
         similarity |-> 1000000 - CosineDistance(qe, V[s[i]].embedding)]]

\* The rows of
\*   legal_articles la JOIN legal_documents ld ON la.law_id = ld.id
\*   LEFT JOIN document_tags dt ON ld.id = dt.document_id
JoinedRows(T) ==
    {r \in [la : Range(T.articles), ld : Range(T.documents),
            tag : {x.tag : x \in T.tags} \cup {SqlNull}] :
        /\ SqlEq(r.la.law_id, r.ld.id)
        /\ IF r.tag.t = "NULL"
           THEN \A x \in T.tags : ~SqlEq(x.document_id, r.ld.id)
           ELSE [document_id |-> r.ld.id, tag |-> r.tag] \in T.tags}

\* the WHERE clause built at lines 360-390 for one joined row; a key the
\* code does not test adds no condition
WhereClause(r, ids, f) ==
    /\ \E id \in Range(ids) : SqlEq(r.la.id, Adapt(id))
    /\ "document_type" \in DOMAIN f =>
            SqlEq(r.ld.document_type, Adapt(f["document_type"]))
    /\ "category" \in DOMAIN f => SqlEq(r.ld.category, Adapt(f["category"]))
    /\ "tags" \in DOMAIN f =>
            \E x \in Range(f["tags"]) : SqlEq(r.tag, Adapt(x))
    /\ "date_after" \in DOMAIN f =>
            SqlGe(r.ld.date_published, Adapt(f["date_after"]))
    /\ "date_before" \in DOMAIN f =>
            SqlLe(r.ld.date_published, Adapt(f["date_before"]))

\* dict(row) of one row of the SELECT
JoinDict(r) ==
    [article_id |-> FromSql(r.la.id), content |-> FromSql(r.la.content),
     number |-> FromSql(r.la.number), law_id |-> FromSql(r.ld.id),
     title |-> FromSql(r.ld.title), document_type |-> FromSql(r.ld.document_type),
     date_published |-> FromSql(r.ld.date_published),
     category |-> FromSql(r.ld.category), subcategory |-> FromSql(r.ld.subcategory)]

\* sql_results_dict: GROUP BY la.id leaves one row per article id, and every
\* row of a group has the same la and ld columns
SqlResultsDict(T, ids, f) ==
    LET hits == {JoinDict(r) : r \in {x \in JoinedRows(T) : WhereClause(x, ids, f)}}
    IN  [id \in {h.article_id : h \in hits} |->
            CHOOSE h \in hits : h.article_id = id]

\* the merge loop with merged_results.append(result) one level too far to
\* the left: every vector result is kept, with or without a row
ApplySqlFiltersKeepAll(T, results, f) ==
    LET ids == [i \in DOMAIN results |-> results[i].metadata.article_id]
        byId == SqlResultsDict(T, ids, f)
        Merge(r) == IF r.metadata.article_id \in DOMAIN byId
                    THEN [content |-> r.content, metadata |-> r.metadata,
                          similarity |-> r.similarity,
                          sql_metadata |-> byId[r.metadata.article_id]]
                    ELSE r
    IN  MapSeq(results, Merge)

\* the SELECT without GROUP BY la.id, and the merge done row by row: a
\* vector result is appended once for every joined row of its article
ApplySqlFiltersPerRow(T, results, f) ==
    LET ids == [i \in DOMAIN results |-> results[i].metadata.article_id]
        byId == SqlResultsDict(T, ids, f)
        RowsOf(r) == {x \in JoinedRows(T) :
                        WhereClause(x, ids, f) /\ x.la.id = Adapt(r.metadata.article_id)}
        Merge(r) == [content |-> r.content, metadata |-> r.metadata,
                     similarity |-> r.similarity,
                     sql_metadata |-> byId[r.metadata.article_id]]
        Merged[k \in 0..Len(results)] ==
            IF k = 0 THEN <<>>
            ELSE Merged[k - 1] \o [m \in 1..Cardinality(RowsOf(results[k])) |->
                                      Merge(results[k])]
    IN  Merged[Len(results)]

\* lines 343-411 without the connection handling: the vector results whose
\* article id the SELECT returned, each with its row as sql_metadata
ApplySqlFilters(T, results, f) ==
    LET ids == [i \in DOMAIN results |-> results[i].metadata.article_id]
        byId == SqlResultsDict(T, ids, f)
        Hit(r) == r.metadata.article_id \in DOMAIN byId
        Merge(r) == [content |-> r.content, metadata |-> r.metadata,
                     similarity |-> r.similarity,
                     sql_metadata |-> byId[r.metadata.article_id]]
    IN  MapSeq(SelectSeq(results, Hit), Merge)

\* what a search_similar call came to: fault says which step failed, if
\* one did; raised says whether the caller got an exception in place of a
\* list; joined whether the SQL store was opened; top is the formatted
\* vector result and results the list returned
SearchObs(q, k, filters, fault, raised, joined, top, results) ==
    [op |-> "search", q |-> q, k |-> k, filters |-> filters, fault |-> fault,
     raised |-> raised, joined |-> joined, top |-> top, results |-> results]

\* line 298 on a query the embedding cannot take: sum(ord(c) for c in text)
\* raises TypeError, and search_similar has no except clause
EmbedOutcome(q) ==
    IF q.t # "str" THEN [fault |-> "embedding", raised |-> TRUE]
    ELSE [fault |-> "none", raised |-> FALSE]

\* lines 297-323 up to the call of _apply_sql_filters and its early return
\* at line 341.  collection.query on a collection that clear_databases has
\* deleted raises, and search_similar has no except clause.
SearchVector(q, k, filters) ==
    /\ obs.op = "none" /\ rd.pc = "idle"
    /\ IF EmbedOutcome(q).fault # "none"
       THEN /\ obs' = SearchObs(q, k, filters, EmbedOutcome(q).fault,
                                EmbedOutcome(q).raised, FALSE, <<>>, <<>>)
            /\ rd' = rd
       ELSE IF ~coll
       THEN /\ obs' = SearchObs(q, k, filters, "collection", TRUE, FALSE, <<>>, <<>>)
            /\ rd' = rd
       ELSE \E s \in QueryResults(vec, HashEmbed(q.v), k) :
              LET results == FormatResults(vec, HashEmbed(q.v), s)
              IN  IF FiltersGiven(filters) /\ results # <<>>
                  THEN /\ rd' = [pc |-> "join", q |-> q, k |-> k,
                                 filters |-> filters, results |-> results]
                       /\ obs' = obs
                  ELSE /\ obs' = SearchObs(q, k, filters, "none", FALSE, FALSE,
                                           results, results)
                       /\ rd' = rd
    /\ UNCHANGED <<db, vec, w, nuuid, nputs, namend, lastPut, lastAmend, sg, imp, cl, master, coll>>

\* the join wrapped in "except Exception: return vector_results"
JoinOutcomeFallback(T, results, f, storeFails) ==
    IF storeFails
    THEN [fault |-> "store", raised |-> FALSE, results |-> results]
    ELSE [fault |-> "none", raised |-> FALSE,
          results |-> ApplySqlFilters(T, results, f)]

\* lines 347-414 seen from the caller.  storeFails: sqlite3.connect or
\* cursor.execute raises (the database file is missing, locked or damaged);
\* the try statement has a finally clause and no except clause, so the
\* exception reaches the caller of search_similar and no list is returned.
JoinOutcome(T, results, f, storeFails) ==
    IF storeFails
    THEN [fault |-> "store", raised |-> TRUE, results |-> <<>>]
    ELSE [fault |-> "none", raised |-> FALSE,
          results |-> ApplySqlFilters(T, results, f)]

SearchJoin(storeFails) ==
    /\ obs.op = "none" /\ rd.pc = "join"
    /\ LET out == JoinOutcome(db, rd.results, rd.filters.v, storeFails)
       IN  obs' = SearchObs(rd.q, rd.k, rd.filters, out.fault, out.raised, TRUE,
                            rd.results, out.results)
    /\ rd' = IdleR
    /\ UNCHANGED <<db, vec, w, nuuid, nputs, namend, lastPut, lastAmend, sg, imp, cl, master, coll>>

\* the record o with the state of the SQLite connection of the call added
WithConn(o, c) ==
    [f \in DOMAIN o \cup {"conn"} |-> IF f = "conn" THEN c ELSE o[f]]

\* conn.close() as the last statement of the try body, with no finally
\* clause: an exception of the SELECT leaves the connection open
ConnAfterNoFinally(executeFails) == IF executeFails THEN "open" ELSE "closed"

\* lines 412-413: finally: conn.close()
ConnAfter(executeFails) == "closed"

\* lines 347-349, the first half of _apply_sql_filters: sqlite3.connect,
\* which stands before the try statement.  connectFails: the database file
\* cannot be opened; no connection exists then and the exception reaches
\* the caller of search_similar.
JoinConnect(connectFails) ==
    /\ obs.op = "none" /\ rd.pc = "join"
    /\ IF connectFails
       THEN /\ obs' = WithConn(SearchObs(rd.q, rd.k, rd.filters, "store", TRUE, TRUE,
                                         rd.results, <<>>), "none")
            /\ rd' = IdleR
       ELSE /\ rd' = WithConn([rd EXCEPT !.pc = "query"], "open")
            /\ obs' = obs
    /\ UNCHANGED <<db, vec, w, nuuid, nputs, namend, lastPut, lastAmend, sg, imp, cl, master, coll>>

\* lines 351-413, the second half: the SELECT, the merge and the finally
\* clause.  executeFails: cursor.execute raises.
JoinExecute(executeFails) ==
    /\ obs.op = "none" /\ rd.pc = "query"
    /\ LET out == JoinOutcome(db, rd.results, rd.filters.v, executeFails)
       IN  obs' = WithConn(SearchObs(rd.q, rd.k, rd.filters, out.fault, out.raised,
                                     TRUE, rd.results, out.results),
                           ConnAfter(executeFails))
    /\ rd' = IdleR
    /\ UNCHANGED <<db, vec, w, nuuid, nputs, namend, lastPut, lastAmend, sg, imp, cl, master, coll>>

-----------------------------------------------------------------------------
(* clear_databases *)

\* no call under way; n counts the calls begun
ClIdle == [pc |-> "idle", n |-> 0, opens |-> 0, names |-> <<>>, i |-> 0,
           vector |-> "none", pre |-> [db |-> EmptyTables, vec |-> <<>>]]

\* the call has ended
ClearDone == [ClIdle EXCEPT !.n = cl.n, !.opens = cl.opens]

\* line 573: SELECT name FROM sqlite_master WHERE type='table', which has no
\* ORDER BY and gives the rows in the order of the table.  No table of the
\* schema is AUTOINCREMENT, so there is no sqlite_sequence to pass over.
TableNames(M) == M

\* DROP TABLE without effect
DropTableKeepsTable(T, name) == T

\* line 579: DROP TABLE IF EXISTS of one table.  The sqlite3 module opens no
\* transaction for a DROP or CREATE statement, so each takes effect in the
\* file by itself, before conn.commit() at line 581.
DropTable(T, name) == [n \in DOMAIN T \ {name} |-> T[n]]

\* the row of the table leaves sqlite_master
MasterDrop(M, name) ==
    LET Other(n) == n # name
    IN  SelectSeq(M, Other)

\* line 65, one statement of _init_sql_db: CREATE TABLE IF NOT EXISTS; a
\* table that exists keeps its rows
CreateTable(T, name) ==
    [n \in DOMAIN T \cup {name} |-> IF n \in DOMAIN T THEN T[n] ELSE EmptyTables[n]]

\* the row of a new table goes after every row of sqlite_master
MasterCreate(M, name) ==
    IF \E k \in DOMAIN M : M[k] = name THEN M ELSE Append(M, name)

\* line 562: delete_collection drops the records with the collection
ClearVectorDb(V) == <<>>

\* lines 84-93 of _init_vector_db: get_collection, and create_collection
\* when there is no collection of the name; the collection exists afterwards
InitVectorDb(exists) == TRUE

\* what a clear_databases call came to.  fault: "connect" when
\* sqlite3.connect at line 568, which stands before the try statement,
\* raised to the caller; "locked" when a DROP or CREATE statement raised
\* OperationalError (database is locked), which lines 586-588 print, the
\* call returning None.  vector: "failed" when lines 564-565 printed an
\* exception of the vector half.  pre: the stores as they were when the
\* call began.
ClearObs(fault) ==
    [op |-> "clear", fault |-> fault, vector |-> cl.vector,
     raised |-> fault = "connect", pre |-> cl.pre]

\* the position after the DROP statements: line 581 commits nothing, line
\* 584 calls _init_sql_db
AfterDrop(i, names) == IF i > Len(names) THEN [pc |-> "create", i |-> 1]
                       ELSE [pc |-> "drop", i |-> i]

\* line 562, delete_collection.  It raises when there is no collection of
\* the name or when the client fails (deleteFails); lines 564-565 print the
\* exception, line 563 is passed over and the call goes on to the SQL half.
ClearDatabases(deleteFails) ==
    /\ cl.pc = "idle" /\ obs.op = "none" /\ cl.n < MaxClears
    /\ IF coll /\ ~deleteFails
       THEN /\ vec' = ClearVectorDb(vec)
            /\ coll' = FALSE
            /\ cl' = [cl EXCEPT !.pc = "vector", !.n = @ + 1, !.vector = "none",
                                !.pre = [db |-> db, vec |-> vec]]
       ELSE /\ UNCHANGED <<vec, coll>>
            /\ cl' = [cl EXCEPT !.pc = "connect", !.n = @ + 1, !.vector = "failed",
                                !.pre = [db |-> db, vec |-> vec]]
    /\ UNCHANGED <<db, w, nuuid, nputs, namend, lastPut, lastAmend, rd, obs, sg, imp, master>>

\* line 563, _init_vector_db: a new client, get_collection, which finds no
\* collection, and create_collection.  createFails: create_collection
\* raises; lines 564-565 print the exception and no collection exists.
ClearInitVector(createFails) ==
    /\ cl.pc = "vector" /\ obs.op = "none"
    /\ IF createFails
       THEN /\ coll' = coll
            /\ cl' = [cl EXCEPT !.pc = "connect", !.vector = "failed"]
       ELSE /\ coll' = InitVectorDb(coll)
            /\ cl' = [cl EXCEPT !.pc = "connect"]
    /\ UNCHANGED <<db, vec, w, nuuid, nputs, namend, lastPut, lastAmend, rd, obs, sg, imp, master>>

\* lines 568-574: the connection and the SELECT of the table names.
\* connectFails: the database file cannot be opened.
ClearConnect(connectFails) ==
    /\ cl.pc = "connect" /\ obs.op = "none"
    /\ IF connectFails
       THEN /\ obs' = ClearObs("connect")
            /\ cl' = ClearDone
       ELSE /\ cl' = [cl EXCEPT !.names = TableNames(master),
                                !.pc = AfterDrop(1, TableNames(master)).pc,
                                !.i = 1]
            /\ obs' = obs
    /\ UNCHANGED <<db, vec, w, nuuid, nputs, namend, lastPut, lastAmend, rd, sg, imp, master, coll>>

\* lines 576-581, one DROP statement.  It needs the write lock of the file.
ClearDrop ==
    /\ cl.pc = "drop" /\ obs.op = "none" /\ ~WriteLocked
    /\ db' = DropTable(db, cl.names[cl.i])
    /\ master' = MasterDrop(master, cl.names[cl.i])
    /\ cl' = [cl EXCEPT !.pc = AfterDrop(cl.i + 1, cl.names).pc,
                        !.i = AfterDrop(cl.i + 1, cl.names).i]
    /\ UNCHANGED <<vec, w, nuuid, nputs, namend, lastPut, lastAmend, rd, obs, sg, imp, coll>>

\* line 584, one CREATE statement of _init_sql_db, and after the last one
\* the return of the call.  CREATE TABLE IF NOT EXISTS needs the write lock
\* when it has a table to create.
ClearCreate ==
    /\ cl.pc = "create" /\ obs.op = "none"
    /\ TableExists(db, SqlSchema[cl.i]) \/ ~WriteLocked
    /\ db' = CreateTable(db, SqlSchema[cl.i])
    /\ master' = MasterCreate(master, SqlSchema[cl.i])
    /\ IF cl.i = Len(SqlSchema)
       THEN /\ obs' = ClearObs("none")
            /\ cl' = ClearDone
       ELSE /\ cl' = [cl EXCEPT !.i = @ + 1]
            /\ obs' = obs
    /\ UNCHANGED <<vec, w, nuuid, nputs, namend, lastPut, lastAmend, rd, sg, imp, coll>>

\* lines 586-591: a DROP or CREATE statement has waited for the write lock
\* longer than the timeout of the connection while another transaction was
\* open; the exception is printed and the call returns None
ClearLocked ==
    /\ cl.pc \in {"drop", "create"} /\ obs.op = "none" /\ WriteLocked
    /\ cl.pc = "create" => ~TableExists(db, SqlSchema[cl.i])
    /\ obs' = ClearObs("locked")
    /\ cl' = ClearDone
    /\ UNCHANGED <<db, vec, w, nuuid, nputs, namend, lastPut, lastAmend, rd, sg, imp, master, coll>>

-----------------------------------------------------------------------------
(* The constructor on stores that exist: HybridDatabaseManager.__init__, *)
(* lines 32-56, which every script of src/ runs when it starts           *)

\* what a constructor call came to: the manager, or OperationalError
\* (database is locked) out of _init_sql_db, which has no try statement
InitObs(raised) == [op |-> "init", raised |-> raised]

\* lines 47-55: the attributes, os.makedirs on directories that exist, and
\* the call of _init_sql_db
InitManager ==
    /\ cl.pc = "idle" /\ obs.op = "none" /\ cl.opens < MaxOpens
    /\ cl' = [cl EXCEPT !.pc = "init", !.opens = @ + 1, !.i = 1]
    /\ UNCHANGED <<db, vec, w, nuuid, nputs, namend, lastPut, lastAmend, rd, obs, sg, imp, master, coll>>

\* lines 60-68, one CREATE TABLE IF NOT EXISTS statement of _init_sql_db,
\* which takes effect in the file by itself
InitSqlDb ==
    /\ cl.pc = "init" /\ obs.op = "none"
    /\ TableExists(db, SqlSchema[cl.i]) \/ ~WriteLocked
    /\ db' = CreateTable(db, SqlSchema[cl.i])
    /\ master' = MasterCreate(master, SqlSchema[cl.i])
    /\ cl' = IF cl.i = Len(SqlSchema) THEN [cl EXCEPT !.pc = "initvector"]
             ELSE [cl EXCEPT !.i = @ + 1]
    /\ UNCHANGED <<vec, w, nuuid, nputs, namend, lastPut, lastAmend, rd, obs, sg, imp, coll>>

\* line 65: the statement has a table to create and has waited for the
\* write lock longer than the timeout; the constructor raises
InitLocked ==
    /\ cl.pc = "init" /\ obs.op = "none" /\ WriteLocked
    /\ ~TableExists(db, SqlSchema[cl.i])
    /\ obs' = InitObs(TRUE)
    /\ cl' = ClearDone
    /\ UNCHANGED <<db, vec, w, nuuid, nputs, namend, lastPut, lastAmend, rd, sg, imp, master, coll>>

\* line 56, _init_vector_db, and the return of the constructor: the
\* collection of the directory with its records, or a new one
InitVector ==
    /\ cl.pc = "initvector" /\ obs.op = "none"
    /\ coll' = InitVectorDb(coll)
    /\ obs' = InitObs(FALSE)
    /\ cl' = ClearDone
    /\ UNCHANGED <<db, vec, w, nuuid, nputs, namend, lastPut, lastAmend, rd, sg, imp, master>>

-----------------------------------------------------------------------------
(* Inputs *)

TxtT1 == <<84, 49>>                          \* "T1"

TxtLaw == <<108, 97, 119>>                   \* "law"

TxtDecree == <<100, 101, 99, 114, 101, 101>> \* "decree"

TxtLabor == <<108, 97, 98, 111, 114>>        \* "labor"

TxtUrl == <<117>>                            \* "u"

TagA == <<97>>                               \* "a"

TagB == <<98>>                               \* "b"

TagZ == <<122>>                              \* "z"

IdD1 == <<68, 49>>                           \* "D1"

IdA1 == <<65, 49>>                           \* "A1"

IdZZ == <<90, 90>>                           \* "ZZ"

TxtHi == <<104, 105>>                        \* "hi"

TxtIh == <<105, 104>>                        \* "ih": the code point sum of "hi"

TxtHo == <<104, 111>>                        \* "ho"

Num1 == <<49>>                               \* "1"

Num2 == <<50>>                               \* "2"

\* LegalDocument(id=None, title="T1", document_type="law", source_url="u",
\*               date_scraped=datetime(day 1))
BaseDoc ==
    [id |-> PyNone, title |-> PyStr(TxtT1), document_type |-> PyStr(TxtLaw),
     source_url |-> PyStr(TxtUrl), date_published |-> PyNone,
     date_modified |-> PyNone, date_scraped |-> PyDatetime(1, 0),
     is_current |-> PyBool(TRUE), articles |-> <<>>, tags |-> <<>>,
     category |-> PyNone, subcategory |-> PyNone]

\* LegalArticle(id, law_id="?", number, content)
Art(id, number, content) ==
    [id |-> id, law_id |-> PyStr(<<63>>), number |-> number, content |-> content,
     embedding_id |-> PyNone]

ArtWellFormed(a) == a.number.t = "str" /\ a.content.t = "str"

WriteArts ==
    {Art(PyNone, PyStr(Num1), PyStr(TxtHi)),
     Art(PyStr(IdA1), PyStr(Num1), PyStr(TxtHo)),
     Art(PyNone, PyStr(Num2), PyNone),
     Art(PyNone, PyNone, PyStr(TxtHi))}

\* add_document stops at the first article it cannot store, so a list is cut
\* after its first malformed article
WriteArticleLists ==
    {<<>>} \cup {<<a>> : a \in WriteArts}
           \cup {<<a, b>> : a \in {x \in WriteArts : ArtWellFormed(x)}, b \in WriteArts}

WriteDocs ==
    {[BaseDoc EXCEPT !.id = i, !.tags = <<PyStr(TagB), PyStr(TagA)>>, !.articles = l] :
        i \in {PyNone, PyStr(IdD1)}, l \in WriteArticleLists}
    \cup {[BaseDoc EXCEPT !.id = i, !.tags = <<PyStr(TagA), PyStr(TagA)>>] :
            i \in {PyNone, PyStr(IdD1)}}
    \cup {[BaseDoc EXCEPT !.title = PyNone], [BaseDoc EXCEPT !.date_scraped = PyNone]}

\* ids a reader asks for: a fixed one, and those of the document being put
\* or last put
ReadDocIds == {PyStr(IdD1), w.doc.id, lastPut.doc.id} \ {PyNone}

\* a fixed article id and the one indexed last
ReadArticleIds ==
    {PyStr(IdA1)} \cup {vec[i].metadata.article_id : i \in DOMAIN vec \cap {Len(vec)}}

\* documents that amendments refer to, and one that comes without an id
AmendDocs ==
    {[BaseDoc EXCEPT !.id = PyStr(IdD1), !.tags = <<PyStr(TagA)>>, !.articles = l] :
        l \in {<<>>, <<Art(PyStr(IdA1), PyStr(Num1), PyStr(TxtHo))>>,
               <<Art(PyNone, PyStr(Num1), PyStr(TxtHi))>>}}
    \cup {[BaseDoc EXCEPT !.tags = <<PyStr(TagB), PyStr(TagA)>>]}

IdM1 == <<77, 49>>                           \* "M1"

Amendments ==
    {[id |-> i, law_id |-> PyStr(l), amendment_date |-> PyDatetime(1, 0),
      description |-> PyStr(TxtHi), affected_articles |-> aff,
      amendment_text |-> PyStr(TxtHo), source_url |-> PyStr(TxtUrl)] :
        i \in {PyNone, PyStr(IdM1)},
        l \in {IdD1, IdZZ},
        aff \in {<<>>, <<PyStr(IdA1)>>, <<PyStr(IdZZ)>>,
                 <<PyStr(IdA1), PyStr(IdZZ)>>, <<PyStr(IdA1), PyStr(IdA1)>>}}

\* a document that passes every filter of SearchFilters that names a value
\* it has, and four that differ from it in one field each
MetaBase ==
    [BaseDoc EXCEPT !.category = PyStr(TxtLabor),
                    !.tags = <<PyStr(TagB), PyStr(TagA)>>,
                    !.date_published = PyDatetime(2, 0)]

MetaVariants ==
    {MetaBase,
     [MetaBase EXCEPT !.document_type = PyStr(TxtDecree)],
     [MetaBase EXCEPT !.category = PyNone],
     [MetaBase EXCEPT !.tags = <<>>],
     [MetaBase EXCEPT !.date_published = PyNone]}

\* the second list leaves its first article in the vector index only; the
\* third holds two contents with the embedding of the query "hi"
MetaDocs ==
    {[m EXCEPT !.articles = l] :
        m \in MetaVariants,
        l \in {<<Art(PyNone, PyStr(Num1), PyStr(TxtHi))>>,
               <<Art(PyNone, PyStr(Num1), PyStr(TxtHo)), Art(PyNone, PyStr(Num2), PyNone)>>,
               <<Art(PyNone, PyStr(Num1), PyStr(TxtHo)),
                 Art(PyNone, PyStr(Num2), PyStr(TxtIh))>>}}

\* values a caller gives for date_after and date_before: ISO text, a
\* datetime or a date
FilterDates ==
    {IsoFormat(PyDatetime(1, 0)), IsoFormat(PyDatetime(2, 0)),
     IsoFormat(PyDatetime(3, 0)), PyDatetime(2, 0), PyDate(2)}

SearchFilters ==
    {PyNone, EmptyDict,
     PyDict([document_type |-> PyStr(TxtLaw)]),
     PyDict([document_type |-> PyStr(TxtDecree)]),
     PyDict([category |-> PyStr(TxtLabor)]),
     PyDict([tags |-> <<>>]),
     PyDict([tags |-> <<PyStr(TagA)>>]),
     PyDict([tags |-> <<PyStr(TagA), PyStr(TagB)>>]),
     PyDict([tags |-> <<PyStr(TagZ)>>]),
     PyDict([bogus |-> PyInt(1)]),
     PyDict([document_type |-> PyStr(TxtLaw), tags |-> <<PyStr(TagA)>>]),
     PyDict([category |-> PyStr(TxtLabor),
             date_after |-> IsoFormat(PyDatetime(1, 0)),
             date_before |-> IsoFormat(PyDatetime(3, 0))])}
    \cup {PyDict([date_after |-> d]) : d \in FilterDates}
    \cup {PyDict([date_before |-> d]) : d \in FilterDates}

-----------------------------------------------------------------------------
(* The segmenter: LexBGScraper.extract_law_content, lines 159-212 *)

MaxMarkerLen == 30

MinContentLen == 10

\* str.isspace(), which str.strip(), str.split() and the pattern \s use
IsSpace(c) ==
    \/ c \in 9..13 \/ c \in 28..32 \/ c \in {133, 160, 5760}
    \/ c \in 8192..8202 \/ c \in {8232, 8233, 8239, 8287, 12288}

\* the code points of the digit zero of every script of Unicode 14 (general
\* category Nd); the digits 1 to 9 of a script follow its zero
DigitZeros ==
    {48, 1632, 1776, 1984, 2406, 2534, 2662, 2790, 2918, 3046, 3174, 3302,
     3430, 3558, 3664, 3792, 3872, 4160, 4240, 6112, 6160, 6470, 6608, 6784,
     6800, 6992, 7088, 7232, 7248, 42528, 43216, 43264, 43472, 43504, 43600,
     44016, 65296, 66720, 68912, 69734, 69872, 69942, 70096, 70384, 70736,
     70864, 71248, 71360, 71472, 71904, 72016, 72784, 73040, 73120, 92768,
     92864, 93008, 120782, 120792, 120802, 120812, 120822, 123200, 123632,
     125264, 130032}

\* the pattern \d of a str pattern: every decimal digit of Unicode
IsDigit(c) == \E z \in DigitZeros : c \in z..(z + 9)

\* the pattern [а-я]
IsCyrLower(c) == c \in 1072..1103

\* str.strip()
Strip(s) ==
    LET keep == {i \in DOMAIN s : ~IsSpace(s[i])}
    IN  IF keep = {} THEN <<>>
        ELSE SubSeq(s, CHOOSE i \in keep : \A j \in keep : i <= j,
                       CHOOSE i \in keep : \A j \in keep : j <= i)

\* the number of characters from position from on that satisfy P, up to the
\* first that does not
RunLength(s, from, P(_)) ==
    CHOOSE n \in 0..(Len(s) + 1 - from) :
        /\ \A j \in from..(from + n - 1) : P(s[j])
        /\ from + n <= Len(s) => ~P(s[from + n])

\* p in s
Contains(s, p) ==
    \E i \in 1..(Len(s) - Len(p) + 1) : SubSeq(s, i, i + Len(p) - 1) = p

MarkerShort == <<1063, 1083, 46>>              \* "Чл."

MarkerLong == <<1063, 1083, 1077, 1085>>       \* "Член"

Sentinel == <<80, 114, 101, 97, 109, 98, 108, 101>>  \* "Preamble"

\* "ДОБАВИ В МОИТЕ АКТОВЕ" and "LEX.BG"
Boilerplate ==
    {<<1044, 1054, 1041, 1040, 1042, 1048, 32, 1042, 32, 1052, 1054, 1048,
       1058, 1045, 32, 1040, 1050, 1058, 1054, 1042, 1045>>,
     <<76, 69, 88, 46, 66, 71>>}

\* line 172 without the test of len(line)
IsMarkerLineAnyLength(line) ==
    \/ StartsWith(line, MarkerShort)
    \/ StartsWith(line, MarkerLong)

\* line 172, on a stripped line
IsMarkerLine(line) ==
    \/ StartsWith(line, MarkerShort)
    \/ StartsWith(line, MarkerLong) /\ Len(line) < MaxMarkerLen

\* lines 181-190 on a marker line: re.match(r'Чл\.\s*(\d+[а-я]*)\.?', line)
\* gives "Чл. " + group(1); otherwise the first word when it starts with
\* "Чл", otherwise "Чл."
ArticleNumber(line) ==
    LET sp == IF StartsWith(line, MarkerShort) THEN RunLength(line, 4, IsSpace) ELSE 0
        dg == IF StartsWith(line, MarkerShort) THEN RunLength(line, 4 + sp, IsDigit) ELSE 0
        lt == RunLength(line, 4 + sp + dg, IsCyrLower)
        NotSpace(c) == ~IsSpace(c)
        word == SubSeq(line, 1, RunLength(line, 1, NotSpace))
    IN  IF dg > 0
        THEN <<1063, 1083, 46, 32>> \o SubSeq(line, 4 + sp, 3 + sp + dg + lt)
        ELSE IF word # <<>> /\ StartsWith(word, <<1063, 1083>>) THEN word
        ELSE MarkerShort

\* current_segment += line, without the "\n"
AppendLineNoNewline(buffer, line) == buffer \o line

\* line 195: current_segment += "\n" + line
AppendLine(buffer, line) == buffer \o <<10>> \o line

\* "if current_segment" taken to ask for more than the marker line: a
\* segment of a single line is not saved
EmitMultiLine(segments, number, buffer) ==
    IF ~Contains(buffer, <<10>>) THEN segments
    ELSE Append(segments, [number |-> number, content |-> Strip(buffer)])

\* lines 175-178 and 199-202: the pending segment, when there is one
Emit(segments, number, buffer) ==
    IF buffer = <<>> THEN segments
    ELSE Append(segments, [number |-> number, content |-> Strip(buffer)])

\* lines 208-209 alone, without the test of len(segment["content"])
KeepSegmentAnyLength(seg) ==
    \A b \in Boilerplate : ~Contains(seg.content, b)

\* lines 207-209
KeepSegment(seg) ==
    /\ Len(seg.content) > MinContentLen
    /\ \A b \in Boilerplate : ~Contains(seg.content, b)

SgIdle == [pc |-> "idle"]

\* article_num = "" at line 164
SgStartUnnumbered(lines) ==
    [pc |-> "scan", lines |-> lines, i |-> 1, current_segment |-> <<>>,
     article_num |-> <<>>, segments |-> <<>>, articles |-> <<>>,
     round |-> 1, expect |-> <<>>]

\* lines 159-164, full_text.split("\n") being the lines.  round counts the
\* runs of the segmenter; expect holds the two articles of the first run
\* whose contents make the text of the second.
SgStart(lines) ==
    [pc |-> "scan", lines |-> lines, i |-> 1, current_segment |-> <<>>,
     article_num |-> Sentinel, segments |-> <<>>, articles |-> <<>>,
     round |-> 1, expect |-> <<>>]

\* the scan written as a while loop whose "continue" on a blank line skips
\* the increment of the line index
SegSkipBlankStays ==
    /\ sg.pc = "scan" /\ sg.i <= Len(sg.lines)
    /\ Strip(sg.lines[sg.i]) = <<>>
    /\ sg' = sg
    /\ UNCHANGED dbvars

\* lines 167-169: a line that is empty once stripped
SegSkipBlank ==
    /\ sg.pc = "scan" /\ sg.i <= Len(sg.lines)
    /\ Strip(sg.lines[sg.i]) = <<>>
    /\ sg' = [sg EXCEPT !.i = @ + 1]
    /\ UNCHANGED dbvars

\* lines 172-192 with current_segment = "" at line 192: the marker line is
\* left out of the article it opens
SegOpenArticleDropsLine ==
    /\ sg.pc = "scan" /\ sg.i <= Len(sg.lines)
    /\ LET line == Strip(sg.lines[sg.i])
       IN  /\ line # <<>> /\ IsMarkerLine(line)
           /\ sg' = [sg EXCEPT !.i = @ + 1,
                               !.segments = Emit(@, sg.article_num, sg.current_segment),
                               !.article_num = ArticleNumber(line),
                               !.current_segment = <<>>]
    /\ UNCHANGED dbvars

\* lines 172-192
SegOpenArticle ==
    /\ sg.pc = "scan" /\ sg.i <= Len(sg.lines)
    /\ LET line == Strip(sg.lines[sg.i])
       IN  /\ line # <<>> /\ IsMarkerLine(line)
           /\ sg' = [sg EXCEPT !.i = @ + 1,
                               !.segments = Emit(@, sg.article_num, sg.current_segment),
                               !.article_num = ArticleNumber(line),
                               !.current_segment = line]
    /\ UNCHANGED dbvars

\* lines 193-195
SegAppendLine ==
    /\ sg.pc = "scan" /\ sg.i <= Len(sg.lines)
    /\ LET line == Strip(sg.lines[sg.i])
       IN  /\ line # <<>> /\ ~IsMarkerLine(line)
           /\ sg' = [sg EXCEPT !.i = @ + 1,
                               !.current_segment = AppendLine(@, line)]
    /\ UNCHANGED dbvars

\* lines 197-202
SegFlush ==
    /\ sg.pc = "scan" /\ sg.i > Len(sg.lines)
    /\ sg' = [sg EXCEPT !.pc = "filter",
                        !.segments = Emit(@, sg.article_num, sg.current_segment)]
    /\ UNCHANGED dbvars

\* lines 204-210
SegFilter ==
    /\ sg.pc = "filter"
    /\ sg' = [sg EXCEPT !.pc = "done", !.articles = SelectSeq(sg.segments, KeepSegment)]
    /\ UNCHANGED dbvars

\* str.split("\n")
RECURSIVE SplitLines(_)
SplitLines(text) ==
    LET nl == {i \in DOMAIN text : text[i] = 10}
    IN  IF nl = {} THEN <<text>>
        ELSE LET i == CHOOSE x \in nl : \A y \in nl : x <= y
             IN  <<SubSeq(text, 1, i - 1)>> \o SplitLines(SubSeq(text, i + 1, Len(text)))

\* the segmenter run again, on the contents of two articles of its output,
\* an earlier and a later one, joined by a newline
SegAgain ==
    /\ sg.pc = "done" /\ sg.round = 1
    /\ \E i, j \in DOMAIN sg.articles :
          /\ i < j
          /\ LET text == sg.articles[i].content \o <<10>> \o sg.articles[j].content
             IN  sg' = [SgStart(SplitLines(text)) EXCEPT
                           !.round = 2,
                           !.expect = <<sg.articles[i], sg.articles[j]>>]
    /\ UNCHANGED dbvars

\* "Чл. 70. Foo"
Line70 ==
    <<1063, 1083, 46, 32, 55, 48, 46, 32, 70, 111, 111>>

\* "bar"
LineBar ==
    <<98, 97, 114>>

\* "Чл. 71. Baz"
Line71 ==
    <<1063, 1083, 46, 32, 55, 49, 46, 32, 66, 97, 122>>

\* ""
LineEmpty ==
    <<>>

\* " \t"
LineBlank ==
    <<32, 9>>

\* "  Чл.70а. Quux "
Line70a ==
    <<32, 32, 1063, 1083, 46, 55, 48, 1072, 46, 32, 81, 117, 117, 120,
    32>>

\* "Член 5"
LineMember ==
    <<1063, 1083, 1077, 1085, 32, 53>>

\* "Член 5 от закона се прилага т" (29 characters)
LineMember29 ==
    <<1063, 1083, 1077, 1085, 32, 53, 32, 1086, 1090, 32, 1079, 1072,
    1082, 1086, 1085, 1072, 32, 1089, 1077, 32, 1087, 1088, 1080, 1083,
    1072, 1075, 1072, 32, 1090>>

\* "Член 5 от закона се прилага ту" (30 characters)
LineMember30 ==
    <<1063, 1083, 1077, 1085, 32, 53, 32, 1086, 1090, 32, 1079, 1072,
    1082, 1086, 1085, 1072, 32, 1089, 1077, 32, 1087, 1088, 1080, 1083,
    1072, 1075, 1072, 32, 1090, 1091>>

\* "Чл. 72. Срокът е един месец от" (30 characters)
LineArticle30 ==
    <<1063, 1083, 46, 32, 55, 50, 46, 32, 1057, 1088, 1086, 1082, 1098,
    1090, 32, 1077, 32, 1077, 1076, 1080, 1085, 32, 1084, 1077, 1089,
    1077, 1094, 32, 1086, 1090>>

\* "Чл. X"
LineNoDigits ==
    <<1063, 1083, 46, 32, 88>>

\* "LEX.BG home"
LineBoiler ==
    <<76, 69, 88, 46, 66, 71, 32, 104, 111, 109, 101>>

\* "Preface text."
LinePreface ==
    <<80, 114, 101, 102, 97, 99, 101, 32, 116, 101, 120, 116, 46>>

\* "Чл. ５. Foo" (the digit is U+FF15, FULLWIDTH DIGIT FIVE)
LineFullwidth ==
    <<1063, 1083, 46, 32, 65301, 46, 32, 70, 111, 111>>

LinePool ==
    {Line70, LineBar, Line71, LineEmpty, LineBlank, Line70a, LineMember,
     LineMember29, LineMember30, LineArticle30, LineNoDigits, LineBoiler,
     LinePreface, LineFullwidth}

\* the page texts: split("\n") yields at least one line
SegInputs == UNION {[1..n -> LinePool] : n \in 1..MaxLines}

-----------------------------------------------------------------------------
(* import_from_json *)

ImpIdle == [pc |-> "idle"]

\* a key that the JSON object does not have
Absent == [t |-> "absent", v |-> <<>>]

\* dict.get(key, default)
DictGet(x, default) == IF x.t = "absent" THEN default ELSE x

TxtUnknown == <<85, 110, 107, 110, 111, 119, 110>>   \* "Unknown"

\* In a text that holds a date, the fixed-width part "YYYY-MM-DD" is one
\* element, the day number, and the fixed-width part "HH:MM:SS" is one
\* element, the hour (see IsoFormat)
IsDatePart(c) == c \in 1..31

IsTimePart(c) == c \in 0..23

\* the texts datetime.fromisoformat parses: a date alone, or a date, any one
\* character and a time ("T" as isoformat() writes it, " " as str() does);
\* every other text raises ValueError and a value that is no str TypeError
IsIsoText(x) ==
    /\ x.t = "str"
    /\ \/ Len(x.v) = 1 /\ IsDatePart(x.v[1])
       \/ Len(x.v) = 3 /\ IsDatePart(x.v[1]) /\ IsTimePart(x.v[3])

\* datetime.fromisoformat on a text it parses: a date alone is midnight
FromIsoFormat(x) ==
    IF Len(x.v) = 1 THEN PyDatetime(x.v[1], 0) ELSE PyDatetime(x.v[1], x.v[3])

\* lines 526-531: date_scraped is the reading of the clock at line 526,
\* replaced by the parsed "scraped_date" when the key is there and parses;
\* the exception of a failed parse is printed
DateScraped(rec, now) ==
    IF rec.scraped_date.t # "absent" /\ IsIsoText(rec.scraped_date)
    THEN FromIsoFormat(rec.scraped_date)
    ELSE now

\* lines 546-553: LegalArticle(id=str(uuid.uuid4()), law_id=document.id,
\* number=article_data.get("number", "Unknown"),
\* content=article_data.get("content", "")), n uuids having been drawn
\* before the document's
ImportArticles(rec, docId, n) ==
    [k \in DOMAIN rec.articles |->
        [id           |-> Uuid4(n + 1 + k),
         law_id       |-> docId,
         number       |-> DictGet(rec.articles[k].number, PyStr(TxtUnknown)),
         content      |-> DictGet(rec.articles[k].content, PyStr(<<>>)),
         embedding_id |-> PyNone]]

\* lines 525-553: the LegalDocument built from one record.  The clock is read
\* twice: published is datetime.now() at line 525, scraped at line 526.
ImportDocument(rec, published, scraped, n) ==
    [id             |-> Uuid4(n + 1),
     title          |-> DictGet(rec.title, PyStr(TxtUnknown)),
     document_type  |-> PyStr(TxtLaw),
     source_url     |-> DictGet(rec.url, PyStr(<<>>)),
     date_published |-> published,
     date_modified  |-> PyNone,
     date_scraped   |-> DateScraped(rec, scraped),
     is_current     |-> PyBool(TRUE),
     articles       |-> ImportArticles(rec, Uuid4(n + 1), n),
     tags           |-> <<PyStr(TxtLabor)>>,
     category       |-> PyStr(TxtLabor),
     subcategory    |-> PyNone]

\* lines 515-518: the file is read.  stored lists the documents for which
\* add_document has returned during this call.
ImportFromJson(data) ==
    /\ imp.pc = "idle"
    /\ w.pc = "idle" /\ rd.pc = "idle" /\ obs.op = "none"
    /\ imp' = [pc |-> "loop", data |-> data, i |-> 1, stored |-> <<>>]
    /\ UNCHANGED <<db, vec, w, nuuid, nputs, namend, lastPut, lastAmend, rd, obs, sg, cl, master, coll>>

\* lines 518-520: a record with the key "error"
ImportSkip ==
    /\ imp.pc = "loop" /\ imp.i <= Len(imp.data)
    /\ imp.data[imp.i].error
    /\ imp' = [imp EXCEPT !.i = @ + 1]
    /\ UNCHANGED <<db, vec, w, nuuid, nputs, namend, lastPut, lastAmend, rd, obs, sg, cl, master, coll>>

\* lines 523-556: the document is built, which draws its id and those of
\* its articles, and add_document is called
ImportPut(published, scraped) ==
    /\ imp.pc = "loop" /\ imp.i <= Len(imp.data)
    /\ ~imp.data[imp.i].error
    /\ PutBegin(ImportDocument(imp.data[imp.i], published, scraped, nuuid),
                1 + Len(imp.data[imp.i].articles))
    /\ imp' = [imp EXCEPT !.pc = "put"]

\* the call of add_document inside try/except with a print: a document
\* that fails is passed over and the loop goes on
ImportPutDoneGoesOn ==
    /\ imp.pc = "put" /\ w.pc = "idle"
    /\ imp' = [imp EXCEPT !.pc = "loop", !.i = @ + 1,
                          !.stored = IF lastPut.status = "raised" THEN @
                                     ELSE Append(@, lastPut.doc)]
    /\ UNCHANGED <<db, vec, w, nuuid, nputs, namend, lastPut, lastAmend, rd, obs, sg, cl, master, coll>>

\* add_document has come back: its exception leaves import_from_json too,
\* its return goes on to the next record
ImportPutDone ==
    /\ imp.pc = "put" /\ w.pc = "idle"
    /\ imp' = IF lastPut.status = "raised"
              THEN [imp EXCEPT !.pc = "raised"]
              ELSE [imp EXCEPT !.pc = "loop", !.i = @ + 1,
                               !.stored = Append(@, lastPut.doc)]
    /\ UNCHANGED <<db, vec, w, nuuid, nputs, namend, lastPut, lastAmend, rd, obs, sg, cl, master, coll>>

\* the end of the for loop
ImportReturn ==
    /\ imp.pc = "loop" /\ imp.i > Len(imp.data)
    /\ imp' = [imp EXCEPT !.pc = "returned"]
    /\ UNCHANGED <<db, vec, w, nuuid, nputs, namend, lastPut, lastAmend, rd, obs, sg, cl, master, coll>>

\* {"title": "T1", "url": "u", "scraped_date": "<day 1>",
\*  "articles": [{"number": "1", "content": "hi"}]}
RecOk ==
    [error |-> FALSE, title |-> PyStr(TxtT1), url |-> PyStr(TxtUrl),
     scraped_date |-> IsoFormat(PyDatetime(1, 0)),
     articles |-> <<[number |-> PyStr(Num1), content |-> PyStr(TxtHi)]>>]

\* the records of a file: a well-formed one, one with two articles and a
\* "scraped_date" that is a date alone, one that the scraper wrote after an
\* error, one whose article has no "content" and whose "scraped_date" has a
\* space for the "T", one whose second article has "content": null, one
\* with no key at all, and one whose "scraped_date" does not parse and
\* whose article has no key
ImportRecords ==
    {RecOk,
     [RecOk EXCEPT !.scraped_date = PyStr(<<2>>),
                   !.articles = <<[number |-> PyStr(Num1), content |-> PyStr(TxtHo)],
                                  [number |-> PyStr(Num2), content |-> PyStr(TxtIh)]>>],
     [RecOk EXCEPT !.error = TRUE],
     [RecOk EXCEPT !.scraped_date = PyStr(<<1, 32, 0>>),
                   !.articles = <<[number |-> PyStr(Num1), content |-> Absent]>>],
     [RecOk EXCEPT !.articles = <<[number |-> PyStr(Num1), content |-> PyStr(TxtHi)],
                                  [number |-> PyStr(Num2), content |-> PyNone]>>],
     [error |-> FALSE, title |-> Absent, url |-> Absent, scraped_date |-> Absent,
      articles |-> <<>>],
     [RecOk EXCEPT !.scraped_date = PyStr(TxtHi),
                   !.articles = <<[number |-> Absent, content |-> Absent]>>]}

\* the files: lists of up to MaxPuts + 1 records
ImportFiles == UNION {[1..n -> ImportRecords] : n \in 1..(MaxPuts + 1)}

\* the readings of datetime.now() during the import.  Two readings of one
\* record may fall in different hours, and the wall clock may be set back
\* between them.
Clock == {PyDatetime(3, 0), PyDatetime(3, 1)}

-----------------------------------------------------------------------------
(* Specification of the write path with concurrent readers *)

InitStores ==
    /\ db = EmptyTables
    /\ vec = <<>>
    /\ w = IdleW
    /\ nuuid = 0
    /\ nputs = 0
    /\ namend = 0
    /\ lastPut = NoPut
    /\ lastAmend = NoAmend
    /\ rd = IdleR
    /\ obs = NoObs
    /\ imp = ImpIdle
    /\ cl = ClIdle
    /\ master = SqlSchema
    /\ coll = TRUE

Init == InitStores /\ sg = SgIdle

Next ==
    \/ \E doc \in WriteDocs : PutDocument(doc)
    \/ PutInsert
    \/ PutTags
    \/ \E rejectsNone \in BOOLEAN : PutEmbed(rejectsNone)
    \/ PutArticleRow
    \/ PutCommit
    \/ \E id \in ReadDocIds : GetDocument(id)
    \/ GetDocumentTags
    \/ GetDocumentArticles
    \/ \E id \in ReadArticleIds : GetArticle(id)
    \/ \E k \in 1..MaxK : SearchVector(PyStr(TxtHi), k, EmptyDict)
    \/ ReaderReturn

Spec == Init /\ [][Next]_vars

-----------------------------------------------------------------------------
(* Specification of amendments *)

NextAmend ==
    \/ \E doc \in AmendDocs : PutDocument(doc)
    \/ PutInsert
    \/ PutTags
    \/ \E rejectsNone \in BOOLEAN : PutEmbed(rejectsNone)
    \/ PutArticleRow
    \/ PutCommit
    \/ \E am \in Amendments : AddAmendment(am)
    \/ AddAmendmentInsert
    \/ AddAmendmentAffected

SpecAmend == Init /\ [][NextAmend]_vars

-----------------------------------------------------------------------------
(* Specification of the reset: clear_databases and a constructor call beside *)
(* a writer and a reader, with one amendment in a behaviour                  *)

\* documents with and without an article, under ids that the caller gives
ClearDocs ==
    {[BaseDoc EXCEPT !.id = PyStr(IdD1), !.tags = <<PyStr(TagB), PyStr(TagA)>>,
                     !.articles = l] :
        l \in {<<>>, <<Art(PyStr(IdA1), PyStr(Num1), PyStr(TxtHi))>>}}

\* the amendment of document "D1" that names its article
ClearAmendments ==
    {am \in Amendments : /\ am.id = PyStr(IdM1) /\ am.law_id = PyStr(IdD1)
                         /\ am.affected_articles = <<PyStr(IdA1)>>}

NextClear ==
    \/ nputs = 0 /\ \E doc \in ClearDocs : PutDocument(doc)
    \/ PutInsert
    \/ PutTags
    \/ \E rejectsNone \in BOOLEAN : PutEmbed(rejectsNone)
    \/ PutArticleRow
    \/ PutCommit
    \/ namend = 0 /\ \E am \in ClearAmendments : AddAmendment(am)
    \/ AddAmendmentInsert
    \/ AddAmendmentAffected
    \/ \E deleteFails \in BOOLEAN : ClearDatabases(deleteFails)
    \/ \E createFails \in BOOLEAN : ClearInitVector(createFails)
    \/ \E connectFails \in BOOLEAN : ClearConnect(connectFails)
    \/ ClearDrop
    \/ ClearCreate
    \/ ClearLocked
    \/ InitManager
    \/ InitSqlDb
    \/ InitLocked
    \/ InitVector
    \/ GetDocument(PyStr(IdD1))
    \/ GetDocumentTags
    \/ GetDocumentArticles
    \/ SearchVector(PyStr(TxtHi), 1, EmptyDict)
    \/ ReaderReturn

SpecClear == Init /\ [][NextClear]_vars

-----------------------------------------------------------------------------
(* Specification of the reset between tests: calls one after the other *)

\* no call is under way
Quiet ==
    /\ w.pc = "idle" /\ rd.pc = "idle" /\ cl.pc = "idle"
    /\ lastAmend.status \notin {"called", "open"}

NextReset ==
    \/ Quiet /\ \E doc \in ClearDocs : PutDocument(doc)
    \/ PutInsert
    \/ PutTags
    \/ \E rejectsNone \in BOOLEAN : PutEmbed(rejectsNone)
    \/ PutArticleRow
    \/ PutCommit
    \/ Quiet /\ namend = 0 /\ \E am \in ClearAmendments : AddAmendment(am)
    \/ AddAmendmentInsert
    \/ AddAmendmentAffected
    \/ Quiet /\ \E deleteFails \in BOOLEAN : ClearDatabases(deleteFails)
    \/ \E createFails \in BOOLEAN : ClearInitVector(createFails)
    \/ \E connectFails \in BOOLEAN : ClearConnect(connectFails)
    \/ ClearDrop
    \/ ClearCreate
    \/ Quiet /\ GetDocument(PyStr(IdD1))
    \/ GetDocumentTags
    \/ GetDocumentArticles
    \/ Quiet /\ SearchVector(PyStr(TxtHi), 1, EmptyDict)
    \/ ReaderReturn

SpecReset == Init /\ [][NextReset]_vars

-----------------------------------------------------------------------------
(* Specification of imports *)

NextImport ==
    \/ \E data \in ImportFiles : ImportFromJson(data)
    \/ ImportSkip
    \/ \E published, scraped \in Clock : ImportPut(published, scraped)
    \/ PutInsert
    \/ PutTags
    \/ \E rejectsNone \in BOOLEAN : PutEmbed(rejectsNone)
    \/ PutArticleRow
    \/ PutCommit
    \/ ImportPutDone
    \/ ImportReturn

SpecImport == Init /\ [][NextImport]_vars

-----------------------------------------------------------------------------
(* Specification of the steps of a filtered search *)

\* filters that lead to the join, and none
ConnFilters ==
    {EmptyDict,
     PyDict([document_type |-> PyStr(TxtLaw)]),
     PyDict([tags |-> <<PyStr(TagA), PyStr(TagB)>>]),
     PyDict([tags |-> <<PyStr(TagZ)>>])}

NextConn ==
    \/ rd.pc = "idle" /\ \E doc \in MetaDocs : PutDocument(doc)
    \/ PutInsert
    \/ PutTags
    \/ \E rejectsNone \in BOOLEAN : PutEmbed(rejectsNone)
    \/ PutArticleRow
    \/ PutCommit
    \/ w.pc = "idle" /\ \E k \in 1..MaxK, f \in ConnFilters :
                            SearchVector(PyStr(TxtHi), k, f)
    \/ \E connectFails \in BOOLEAN : JoinConnect(connectFails)
    \/ \E executeFails \in BOOLEAN : JoinExecute(executeFails)
    \/ ReaderReturn

SpecConn == Init /\ [][NextConn]_vars

-----------------------------------------------------------------------------
(* Specification of search: calls one after the other *)

NextSearch ==
    \/ rd.pc = "idle" /\ \E doc \in MetaDocs : PutDocument(doc)
    \/ PutInsert
    \/ PutTags
    \/ \E rejectsNone \in BOOLEAN : PutEmbed(rejectsNone)
    \/ PutArticleRow
    \/ PutCommit
    \/ w.pc = "idle" /\ \E k \in 1..MaxK, f \in SearchFilters :
                            SearchVector(PyStr(TxtHi), k, f)
    \/ w.pc = "idle" /\ SearchVector(PyNone, 1, EmptyDict)
    \/ \E storeFails \in BOOLEAN : SearchJoin(storeFails)
    \/ w.pc = "idle" /\ lastPut.status = "returned" /\ GetDocument(lastPut.doc.id)
    \/ GetDocumentTags
    \/ GetDocumentArticles
    \/ ReaderReturn

SpecSearch == Init /\ [][NextSearch]_vars

-----------------------------------------------------------------------------
(* Specification of the segmenter *)

InitSeg == InitStores /\ sg \in {SgStart(l) : l \in SegInputs}

NextSeg ==
    \/ SegSkipBlank
    \/ SegOpenArticle
    \/ SegAppendLine
    \/ SegFlush
    \/ SegFilter

SpecSeg == InitSeg /\ [][NextSeg]_vars

\* the loops of lines 166 and 205 run on: each iteration that can be taken
\* is taken
\* page texts of fewer lines, over a marker line, a short marker line, a
\* continuation line, a blank line and a line of prose
FairInputs ==
    UNION {[1..n -> {Line70, LineMember, LineBar, LineBlank, LinePreface}] :
              n \in 1..(MaxLines - 1)}

InitSegFair == InitStores /\ sg \in {SgStart(l) : l \in FairInputs}

SpecSegFair == InitSegFair /\ [][NextSeg]_vars /\ WF_vars(NextSeg)

\* the segmenter run a second time on its own output
NextSegTwice == NextSeg \/ SegAgain

SpecSegTwice == InitSeg /\ [][NextSegTwice]_vars

-----------------------------------------------------------------------------
(* Properties of add_document *)

\* the rows of the three document tables that belong to the document id
RowsOfDocument(T, id) ==
    [documents |-> {r \in Range(T.documents) : r.id = Adapt(id)},
     tags      |-> {r \in T.tags : r.document_id = Adapt(id)},
     articles  |-> {r \in Range(T.articles) : r.law_id = Adapt(id)}]

NoRows == [documents |-> {}, tags |-> {}, articles |-> {}]

\* C1: add_document is all-or-nothing on the relational store.  Once a call
\* has raised, at whichever INSERT, the store is what it was when the call
\* began, so a document that was not stored before has no document row, no
\* tag row and no article row; once a call has returned, the document row,
\* every tag row and every article row of the document are stored.
C1_AllOrNothing ==
    /\ lastPut.status = "raised" =>
          /\ db = lastPut.pre
          /\ RowsOfDocument(lastPut.pre, lastPut.doc.id) = NoRows =>
                RowsOfDocument(db, lastPut.doc.id) = NoRows
    /\ lastPut.status = "returned" =>
          /\ DocumentRow(lastPut.doc) \in Range(db.documents)
          /\ Range(TagRows(lastPut.doc)) \subseteq db.tags
          /\ \A k \in DOMAIN lastPut.doc.articles :
                ArticleRow(lastPut.doc.articles[k]) \in Range(db.articles)
          /\ Cardinality(RowsOfDocument(db, lastPut.doc.id).articles)
                = Len(lastPut.doc.articles)

\* a call that raised at the INSERT of its second article, after the
\* document row, two tag rows and one article row had been written
C1_Witness ==
    /\ lastPut.status = "raised" /\ lastPut.at = "article"
    /\ Len(lastPut.doc.articles) = 2
    /\ lastPut.doc.tags # <<>>
    /\ RowsOfDocument(lastPut.pre, lastPut.doc.id) = NoRows

\* a record without a title, or with an article without number or content
Malformed(doc) ==
    \/ doc.title.t = "NoneType"
    \/ \E k \in DOMAIN doc.articles :
          doc.articles[k].number.t = "NoneType" \/ doc.articles[k].content.t = "NoneType"

\* C8: add_document of a malformed record is rejected before any write: the
\* call raises, and after it the SQL store and the vector index are exactly
\* what they were before it.
C8_MalformedRejectedBeforeWrite ==
    (lastPut.status \in {"raised", "returned"} /\ Malformed(lastPut.doc)) =>
        /\ lastPut.status = "raised"
        /\ db = lastPut.pre
        /\ vec = lastPut.prevec

-----------------------------------------------------------------------------
(* Properties of search_similar *)

\* the article id has a row in the join that satisfies the filter clauses
PassesFilter(T, id, f) ==
    \E r \in JoinedRows(T) : WhereClause(r, <<id>>, f)

WithoutSqlMetadata(r) ==
    [content |-> r.content, metadata |-> r.metadata, similarity |-> r.similarity]

\* the lists collection.query may give for the query on the present index
VectorTopK(q, k) ==
    {FormatResults(vec, HashEmbed(q.v), s) : s \in QueryResults(vec, HashEmbed(q.v), k)}

NonIncreasing(results) ==
    \A i, j \in DOMAIN results :
        i < j => results[i].similarity >= results[j].similarity

\* C2: with a non-empty filter, a search that returns gives exactly the
\* vector top-k results whose article id passes the relational filter, in
\* the order the index gave them: nothing is added, nothing is re-ranked,
\* similarity does not increase along the list, and the list is empty when
\* no candidate passes.
C2_FilteredSubsequence ==
    (obs.op = "search" /\ obs.joined /\ ~obs.raised) =>
        LET Pass(r) == PassesFilter(db, r.metadata.article_id, obs.filters.v)
        IN  /\ obs.top \in VectorTopK(obs.q, obs.k)
            /\ MapSeq(obs.results, WithoutSqlMetadata) = SelectSeq(obs.top, Pass)
            /\ Len(obs.results) <= obs.k
            /\ NonIncreasing(obs.results)

\* two candidates, the first dropped by the filter and the second returned
C2_Witness ==
    /\ obs.op = "search" /\ obs.joined /\ ~obs.raised
    /\ Len(obs.top) = 2 /\ Len(obs.results) = 1
    /\ WithoutSqlMetadata(obs.results[1]) = obs.top[2]

\* the instant <<day, hour>> that a date, a datetime or an ISO-8601 text
\* denotes
Instant(x) ==
    CASE x.t = "datetime" -> <<x.v[1], x.v[2]>>
      [] x.t = "date"     -> <<x.v[1], 0>>
      [] x.t = "str"      -> <<x.v[1], x.v[3]>>

NotAfter(a, b) == a[1] < b[1] \/ (a[1] = b[1] /\ a[2] <= b[2])

\* the document of row d meets every predicate that the filter f supplies
Satisfies(T, d, f) ==
    /\ "document_type" \in DOMAIN f => FromSql(d.document_type) = f["document_type"]
    /\ "category" \in DOMAIN f => FromSql(d.category) = f["category"]
    /\ "tags" \in DOMAIN f =>
          \E x \in Range(f["tags"]) : [document_id |-> d.id, tag |-> Adapt(x)] \in T.tags
    /\ "date_after" \in DOMAIN f =>
          /\ d.date_published.t # "NULL"
          /\ NotAfter(Instant(f["date_after"]), Instant(FromSql(d.date_published)))
    /\ "date_before" \in DOMAIN f =>
          /\ d.date_published.t # "NULL"
          /\ NotAfter(Instant(FromSql(d.date_published)), Instant(f["date_before"]))

\* C7: the filter join keeps a candidate article if and only if its parent
\* document satisfies every predicate supplied: document_type equal,
\* category equal, one of the requested tags present, date_published not
\* before date_after and not after date_before; an absent key constrains
\* nothing; every result kept carries the metadata of its document.
C7_FilterJoinSemantics ==
    (obs.op = "search" /\ obs.joined /\ ~obs.raised) =>
        /\ \A i \in DOMAIN obs.top :
              LET id == obs.top[i].metadata.article_id
              IN  (\E j \in DOMAIN obs.results : obs.results[j].metadata.article_id = id)
                  <=> (\E a \in Range(db.articles), d \in Range(db.documents) :
                          /\ a.id = Adapt(id) /\ a.law_id = d.id
                          /\ Satisfies(db, d, obs.filters.v))
        /\ \A j \in DOMAIN obs.results :
              \E a \in Range(db.articles), d \in Range(db.documents) :
                  /\ a.id = Adapt(obs.results[j].metadata.article_id) /\ a.law_id = d.id
                  /\ obs.results[j].sql_metadata = JoinDict([la |-> a, ld |-> d])

\* C3: a failure inside search_similar reaches the caller as an exception.
\* When the embedding of the query fails, or the SQL join fails while
\* filters are given, the call raises and returns no list: neither an empty
\* list, nor a part of the result, nor the unfiltered vector results.
C3_FailuresSurface ==
    obs.op = "search" =>
        /\ obs.q.t # "str" => obs.fault = "embedding"
        /\ obs.fault # "none" => obs.raised /\ obs.results = <<>>
        /\ ~obs.raised => obs.fault = "none"

\* the join failed on a call that held vector results to fall back on
C3_Witness ==
    /\ obs.op = "search" /\ obs.fault = "store" /\ obs.raised
    /\ obs.top # <<>>

\* C6: with filters None or {}, search_similar returns the vector result as
\* it is: at most k results, unchanged, similarity non-increasing, and the
\* SQL store is not opened.
C6_EmptyFiltersPassThrough ==
    (/\ obs.op = "search" /\ obs.q.t = "str"
     /\ \/ obs.filters.t = "NoneType"
        \/ obs.filters.t = "dict" /\ DOMAIN obs.filters.v = {}) =>
        /\ ~obs.raised /\ ~obs.joined
        /\ obs.top \in VectorTopK(obs.q, obs.k)
        /\ obs.results = obs.top
        /\ Len(obs.results) <= obs.k
        /\ NonIncreasing(obs.results)

\* a search with {} that returned two results of different similarity, one
\* of them of an article without a row in the SQL store
C6_Witness ==
    /\ obs.op = "search" /\ obs.filters.t = "dict" /\ DOMAIN obs.filters.v = {}
    /\ Len(obs.results) = 2
    /\ obs.results[1].similarity > obs.results[2].similarity
    /\ \E i \in 1..2 : \A r \in Range(db.articles) :
            r.id # Adapt(obs.results[i].metadata.article_id)

\* C13: when the query text is the content of an article in the vector
\* index, a search without filters and with k not below the number of
\* stored records returns that article with the greatest similarity of all
\* results returned.
C13_IdenticalQueryIsMaximum ==
    (/\ obs.op = "search" /\ ~obs.raised /\ ~obs.joined
     /\ ~(obs.filters.t = "dict" /\ DOMAIN obs.filters.v # {})
     /\ obs.k >= Len(vec)) =>
        \A i \in DOMAIN vec :
            vec[i].document = obs.q =>
                \E j \in DOMAIN obs.results :
                    /\ obs.results[j].metadata = vec[i].metadata
                    /\ \A m \in DOMAIN obs.results :
                          obs.results[j].similarity >= obs.results[m].similarity

\* a search for "hi" over two stored articles, "hi" and another text, that
\* returned both
C13_Witness ==
    /\ obs.op = "search" /\ ~obs.raised /\ ~obs.joined
    /\ obs.filters.t = "NoneType"
    /\ Len(vec) = 2 /\ obs.k = 2 /\ Len(obs.results) = 2
    /\ \E i \in DOMAIN vec : vec[i].document = obs.q
    /\ \E i \in DOMAIN vec : vec[i].embedding # HashEmbed(obs.q.v)

-----------------------------------------------------------------------------
(* Properties of add_amendment *)

ArticleStored(T, id) == \E r \in Range(T.articles) : r.id = Adapt(id)

\* C4: add_amendment with an affected article id that the SQL store does
\* not hold raises and changes nothing: legal_amendments and
\* amendment_affected_articles have the rows they had before the call.  So
\* every row of amendment_affected_articles names a stored article.
C4_AmendmentReferentialIntegrity ==
    /\ (/\ lastAmend.status \in {"returned", "raised"}
        /\ \E k \in DOMAIN lastAmend.am.affected_articles :
              ~ArticleStored(lastAmend.pre, lastAmend.am.affected_articles[k])) =>
          /\ lastAmend.status = "raised"
          /\ db.amendments = lastAmend.pre.amendments
          /\ db.affected = lastAmend.pre.affected
    /\ \A row \in db.affected : \E r \in Range(db.articles) : r.id = row.article_id

-----------------------------------------------------------------------------
(* Properties of readers that run while add_document is under way *)

\* the document id has its row, and the article id its row under it
CommittedArticle(T, lawId, articleId) ==
    /\ \E r \in Range(T.documents) : r.id = Adapt(lawId)
    /\ \E r \in Range(T.articles) : r.id = Adapt(articleId) /\ r.law_id = Adapt(lawId)

\* C5: a reader that runs between the steps of an add_document call, or
\* after one that raised, sees no part of a document that is not committed:
\* get_document_by_id and get_article_by_id do not find the document or an
\* article of the call under way, and every result of search_similar is an
\* article of a committed document.
C5_NoPartialDocument ==
    /\ (obs.op = "get_document" /\ w.pc \notin {"idle", "called"} /\ obs.id = w.doc.id) =>
            ~obs.out.found
    /\ (obs.op = "get_article" /\ w.pc \notin {"idle", "called"} /\ obs.out.found) =>
            obs.out.article.law_id # w.doc.id
    /\ (obs.op = "search" /\ ~obs.raised) =>
            \A i \in DOMAIN obs.results :
                CommittedArticle(db, obs.results[i].metadata.law_id,
                                     obs.results[i].metadata.article_id)

-----------------------------------------------------------------------------
(* Properties of add_document followed by get_document_by_id *)

ScalarFields ==
    {"id", "title", "document_type", "source_url", "date_published",
     "date_modified", "date_scraped", "is_current", "category", "subcategory"}

ArticleFields == {"id", "law_id", "number", "content", "embedding_id"}

\* the tags and the articles of the lookup are those of the document put
SameTagsAndArticles(out, doc) ==
    /\ {out.tags[k] : k \in DOMAIN out.tags} = {doc.tags[k] : k \in DOMAIN doc.tags}
    /\ Len(out.articles) = Len(doc.articles)
    /\ \A k \in DOMAIN doc.articles : \A f \in ArticleFields :
          PyEq(out.articles[k][f], doc.articles[k][f])

\* the lookup of the document that the latest add_document call returned
LooksUpLastPut ==
    obs.op = "get_document" /\ lastPut.status = "returned" /\ obs.id = lastPut.doc.id

\* C9 as stated: add_document followed by get_document_by_id on the returned
\* id gives every scalar field with the value that was put, the tags as a
\* set and the articles exactly.
C9_RoundTripExact ==
    LooksUpLastPut =>
        /\ obs.out.found
        /\ \A f \in ScalarFields : PyEq(obs.out.document[f], lastPut.doc[f])
        /\ SameTagsAndArticles(obs.out, lastPut.doc)

\* the value get_document_by_id gives for a scalar field put as x
AsReturned(x) == IF x.t = "datetime" THEN IsoFormat(x) ELSE x

\* C9 amended: add_document followed by get_document_by_id on the returned
\* id gives every scalar field with the value that was put, except that a
\* datetime field comes back as its isoformat() text; the tags are equal as
\* a set and the articles are exactly the articles put.
C9_RoundTripIso ==
    LooksUpLastPut =>
        /\ obs.out.found
        /\ \A f \in ScalarFields :
              PyEq(obs.out.document[f], AsReturned(lastPut.doc[f]))
        /\ SameTagsAndArticles(obs.out, lastPut.doc)

\* a lookup of a document put with a publication date, two tags that come
\* back in another order, and two articles
C9_Witness ==
    /\ LooksUpLastPut /\ obs.out.found
    /\ lastPut.doc.date_published.t = "datetime"
    /\ Len(lastPut.doc.tags) = 2 /\ obs.out.tags # lastPut.doc.tags
    /\ Len(obs.out.articles) = 2

-----------------------------------------------------------------------------
(* Properties of the segmenter *)

NotEmpty(s) == s # <<>>

\* the lines of the page text that are not blank, stripped, in order
ContentLines(lines) == SelectSeq([k \in DOMAIN lines |-> Strip(lines[k])], NotEmpty)

\* "\n".join(ls) of a non-empty list of lines
RECURSIVE JoinLines(_)
JoinLines(ls) ==
    IF Len(ls) = 1 THEN ls[1] ELSE ls[1] \o <<10>> \o JoinLines(Tail(ls))

\* the segments as pairs of number and content, for the page text made of
\* the lines: a segment starts at the first content line and at every marker
\* line, and runs up to the line before the next start
SplitAtMarkers(lines) ==
    LET L == ContentLines(lines)
        starts == {i \in DOMAIN L : i = 1 \/ IsMarkerLine(L[i])}
        n == Cardinality(starts)
        Start(k) == CHOOSE i \in starts : Cardinality({j \in starts : j < i}) = k - 1
        End(k) == IF k = n THEN Len(L) ELSE Start(k + 1) - 1
    IN  [k \in 1..n |->
            [number  |-> IF IsMarkerLine(L[Start(k)])
                         THEN ArticleNumber(L[Start(k)]) ELSE Sentinel,
             content |-> JoinLines(SubSeq(L, Start(k), End(k)))]]

\* C10: the segmenter splits at marker lines and nowhere else.  Each marker
\* line closes the pending article and opens one whose number comes from
\* that line and whose content starts with the line; each later line that
\* is neither a marker nor blank is appended after a newline; blank lines
\* are in no content and close nothing; the last article is flushed at the
\* end.  "Чл. 70. Foo\nbar\nЧл. 71. Baz" gives ("Чл. 70", "Чл. 70. Foo\nbar")
\* and ("Чл. 71", "Чл. 71. Baz").
C10_SplitsAtMarkersOnly ==
    sg.pc \in {"filter", "done"} =>
        /\ sg.segments = SplitAtMarkers(sg.lines)
        /\ sg.lines = <<Line70, LineBar, Line71>> =>
              sg.segments =
                 <<[number  |-> <<1063, 1083, 46, 32, 55, 48>>,
                    content |-> Line70 \o <<10>> \o LineBar],
                   [number  |-> <<1063, 1083, 46, 32, 55, 49>>,
                    content |-> Line71]>>

\* the page text of the example, segmented up to the flush
C10_Witness ==
    /\ sg.pc = "filter"
    /\ sg.lines = <<Line70, LineBar, Line71>>
    /\ Len(sg.segments) = 2

\* no line of the page text is a marker line
NoMarkers(lines) == \A k \in DOMAIN lines : ~IsMarkerLine(Strip(lines[k]))

\* the page text, "\n".join(lines), trimmed
TrimmedInput(lines) == Strip(JoinLines(lines))

\* longer than the minimum length and free of boilerplate
PassesPostFilter(content) ==
    /\ Len(content) > MinContentLen
    /\ \A b \in Boilerplate : ~Contains(content, b)

\* C11 as stated: a page text without marker lines gives exactly one
\* article, numbered "Preamble", whose content is the whole trimmed text.
C11_NoMarkerOneArticle ==
    (sg.pc = "done" /\ NoMarkers(sg.lines)) =>
        sg.articles = <<[number |-> Sentinel, content |-> TrimmedInput(sg.lines)]>>

\* C11 amended: a page text without marker lines gives at most one article.
\* Its number is "Preamble" and its content is the non-blank lines, each
\* stripped, joined by newlines, which is the whole trimmed text when no
\* line is blank or has blanks at its ends.  The article is in the output
\* when that content is longer than the minimum length and holds no
\* boilerplate marker; otherwise, and for a text of blank lines only, the
\* output is empty.
C11_NoMarkerAtMostOne ==
    (sg.pc = "done" /\ NoMarkers(sg.lines)) =>
        LET L == ContentLines(sg.lines)
            clean == \A k \in DOMAIN sg.lines :
                        sg.lines[k] # <<>> /\ Strip(sg.lines[k]) = sg.lines[k]
        IN  /\ L = <<>> => sg.segments = <<>> /\ sg.articles = <<>>
            /\ L # <<>> =>
                  /\ sg.segments = <<[number |-> Sentinel, content |-> JoinLines(L)]>>
                  /\ sg.articles = IF PassesPostFilter(JoinLines(L))
                                   THEN sg.segments ELSE <<>>
            /\ (clean /\ sg.articles # <<>>) =>
                  sg.articles[1].content = TrimmedInput(sg.lines)

\* a text of two lines around a blank one: one "Preamble" article, whose
\* content is not the trimmed text
C11_Witness ==
    /\ sg.pc = "done" /\ NoMarkers(sg.lines)
    /\ Len(sg.lines) = 3 /\ Strip(sg.lines[2]) = <<>>
    /\ Len(sg.articles) = 1
    /\ sg.articles[1].number = Sentinel
    /\ sg.articles[1].content # TrimmedInput(sg.lines)

\* C12: segmenter idempotence.  For any two articles of the segmenter's
\* output, taken in their order in it, the segmenter run on their contents
\* joined by a newline gives the same two pairs of number and content, in
\* the same order.
C12_ResegmentReproduces ==
    (sg.pc = "done" /\ sg.round = 2) => sg.articles = sg.expect

\* a second run on a "Preamble" article of two lines followed by a numbered
\* article, which gave the two back
C12_Witness ==
    /\ sg.pc = "done" /\ sg.round = 2
    /\ sg.expect[1].number = Sentinel /\ sg.expect[2].number # Sentinel
    /\ Len(sg.lines) = 3
    /\ sg.articles = sg.expect

-----------------------------------------------------------------------------
(* Properties of clear_databases *)

\* C14: clear_databases resets both stores and is idempotent.  A call made
\* while no other call is under way, in which neither the vector client nor
\* the connection failed, returns; after it every table of the SQL store
\* exists and is empty and the vector collection exists and is empty; made
\* on stores that are empty already it leaves them as they were.
C14_ClearResetsAndIsIdempotent ==
    (obs.op = "clear" /\ obs.fault = "none" /\ obs.vector = "none") =>
        /\ ~obs.raised
        /\ db = EmptyTables /\ vec = <<>> /\ coll
        /\ (obs.pre.db = EmptyTables /\ obs.pre.vec = <<>>) =>
              (db = obs.pre.db /\ vec = obs.pre.vec)

\* the second of two calls has returned: the first emptied stores that held
\* a document with an article and an amendment, the second found them empty
C14_Witness ==
    /\ obs.op = "clear" /\ obs.fault = "none" /\ obs.vector = "none"
    /\ cl.n = 2
    /\ obs.pre.db = EmptyTables /\ obs.pre.vec = <<>>
    /\ lastPut.status = "returned" /\ lastPut.doc.articles # <<>>
    /\ lastAmend.status = "returned"

\* C15: segmentation ends, without an exception, for every finite page
\* text.  Its output is a finite sequence with at most one article for each
\* non-blank line; a text without marker lines gives at most the single
\* "Preamble" article, which holds all its non-blank lines.
C15_SegmentationTerminates ==
    /\ <>(sg.pc = "done")
    /\ [](sg.pc = "done" =>
            /\ Len(sg.articles) <= Len(ContentLines(sg.lines))
            /\ NoMarkers(sg.lines) =>
                  /\ Len(sg.articles) <= 1
                  /\ \A k \in DOMAIN sg.articles :
                        /\ sg.articles[k].number = Sentinel
                        /\ sg.articles[k].content = JoinLines(ContentLines(sg.lines)))

\* a run that ended with one article for each of two non-blank lines
C15_Witness ==
    /\ sg.pc = "done"
    /\ Len(ContentLines(sg.lines)) = 2
    /\ Len(sg.articles) = 2


-----------------------------------------------------------------------------
(* Properties of the write order of add_document *)

\* the article id has a row in legal_articles, committed or written by the
\* call under way inside its open transaction
RowWritten(id) == ArticleStored(db, id) \/ ArticleStored(w.tx, id)

\* C16: add_document writes an article's row in legal_articles first and
\* adds its embedding record to the collection second, so at every moment
\* every record of the collection belongs to an article whose row has been
\* written.
C16_RowBeforeEmbedding ==
    \A i \in DOMAIN vec : RowWritten(vec[i].metadata.article_id)


-----------------------------------------------------------------------------
(* Properties of the embedding records *)

\* the record is the snapshot of the committed row of its article: number,
\* law id and content are the row's, and the title is that of the law's row
SnapshotOf(rec, T) ==
    \A r \in Range(T.articles) :
        r.id = Adapt(rec.metadata.article_id) =>
            /\ r.number = Adapt(rec.metadata.article_number)
            /\ r.law_id = Adapt(rec.metadata.law_id)
            /\ r.content = Adapt(rec.document)
            /\ \A d \in Range(T.documents) :
                  d.id = r.law_id => d.title = Adapt(rec.metadata.law_title)

\* C17: every record of the collection has the key article id + "_embedding"
\* and is the snapshot (article id, law id, article number, law title, text)
\* of its article; it is created once, when its article is persisted, so no
\* two records share a key and, whenever no add_document call is under way,
\* the article of every record is stored; and add_document leaves every
\* record that the collection held when the call began as it was.
C17_EmbeddingLifecycle ==
    /\ \A i \in DOMAIN vec :
          /\ vec[i].id = EmbeddingId(vec[i].metadata.article_id)
          /\ vec[i].embedding = HashEmbed(vec[i].document.v)
          /\ SnapshotOf(vec[i], db)
          /\ w.pc = "idle" => ArticleStored(db, vec[i].metadata.article_id)
          /\ \A j \in DOMAIN vec : vec[j].id = vec[i].id => j = i
    /\ \A i \in DOMAIN lastPut.prevec :
          i \in DOMAIN vec /\ vec[i] = lastPut.prevec[i]


-----------------------------------------------------------------------------
(* Properties of the marker test *)

\* the scan is at a line that is not blank
AtContentLine ==
    /\ sg.pc = "scan" /\ sg.i <= Len(sg.lines)
    /\ Strip(sg.lines[sg.i]) # <<>>

\* the step restarts the buffer with the line it has read: the pending
\* segment is closed and a new article begins with this line
OpensArticle == sg'.current_segment = Strip(sg.lines[sg.i])

\* C18 as stated: a line that is not blank opens a new article if and only
\* if it starts with "Чл." or "Член" and, when it starts with the shorter
\* "Чл.", has fewer than 30 characters; every other line leaves the article
\* number as it is.
C18_LimitOnShortSpelling ==
    [][AtContentLine =>
          LET line == Strip(sg.lines[sg.i])
              marks == \/ StartsWith(line, MarkerShort) /\ Len(line) < MaxMarkerLen
                       \/ StartsWith(line, MarkerLong)
          IN  /\ OpensArticle <=> marks
              /\ ~marks => sg'.article_num = sg.article_num]_vars

\* C18: a line that is not blank opens a new article if and only if it
\* starts with "Чл.", or starts with "Член" and has fewer than 30 characters;
\* every other line leaves the article number as it is.
C18_LimitOnLongSpelling ==
    [][AtContentLine =>
          LET line == Strip(sg.lines[sg.i])
              marks == \/ StartsWith(line, MarkerShort)
                       \/ StartsWith(line, MarkerLong) /\ Len(line) < MaxMarkerLen
          IN  /\ OpensArticle <=> marks
              /\ ~marks => sg'.article_num = sg.article_num]_vars

\* a run in which a line of 30 characters that starts with "Чл." opened an
\* article and a line of 30 characters that starts with "Член" then went
\* into it
C18_Witness ==
    /\ sg.pc = "done"
    /\ \E k \in DOMAIN sg.segments :
          LET c == sg.segments[k].content
          IN  /\ Len(c) > 2 * MaxMarkerLen
              /\ StartsWith(c, MarkerShort)
              /\ c[MaxMarkerLen + 1] = 10
              /\ StartsWith(SubSeq(c, MaxMarkerLen + 2, Len(c)), MarkerLong)


-----------------------------------------------------------------------------
(* Properties of the post-filter *)

\* the positions of the raw segments that pass both tests
PassingPositions ==
    {k \in DOMAIN sg.segments : PassesPostFilter(sg.segments[k].content)}

\* C19: the output is the order-preserving subsequence of the raw segments
\* whose content is longer than 10 characters and contains neither
\* "ДОБАВИ В МОИТЕ АКТОВЕ" nor "LEX.BG": it has one article for each passing
\* segment, and its n-th article is the n-th passing segment.
C19_OutputIsPassingSubsequence ==
    sg.pc = "done" =>
        /\ Len(sg.articles) = Cardinality(PassingPositions)
        /\ \A k \in PassingPositions :
              sg.articles[Cardinality({j \in PassingPositions : j <= k})]
                 = sg.segments[k]

\* a run of three raw segments whose second, too short, was dropped and
\* whose first and third are the output, in that order
C19_Witness ==
    /\ sg.pc = "done"
    /\ Len(sg.segments) = 3
    /\ Len(sg.segments[2].content) <= MinContentLen
    /\ sg.articles = <<sg.segments[1], sg.segments[3]>>
    /\ sg.segments[1] # sg.segments[3]


-----------------------------------------------------------------------------
(* Properties of consecutive marker lines *)

\* the positions, among the lines that are not blank, of a marker line that
\* is followed at once by another marker line
BareMarkers ==
    LET kept == ContentLines(sg.lines)
    IN  {k \in DOMAIN kept :
            k + 1 \in DOMAIN kept /\ IsMarkerLine(kept[k]) /\ IsMarkerLine(kept[k + 1])}

\* C20 as stated: of two marker lines with no content between them, the
\* first gives an article whose content is exactly that line, and the
\* article is in the output.
C20_BareMarkerInOutput ==
    sg.pc = "done" =>
        \A k \in BareMarkers :
            \E n \in DOMAIN sg.articles :
                sg.articles[n].content = ContentLines(sg.lines)[k]

\* C20: of two marker lines with no content between them, the first gives a
\* raw segment whose content is exactly that line, under the number read
\* from it; the segment is in the output when the line is longer than 10
\* characters and holds no boilerplate marker, and otherwise the output has
\* no article with that content.
C20_BareMarkerSegment ==
    sg.pc = "done" =>
        \A k \in BareMarkers :
            LET line == ContentLines(sg.lines)[k]
                seg == [number |-> ArticleNumber(line), content |-> line]
            IN  /\ \E n \in DOMAIN sg.segments : sg.segments[n] = seg
                /\ PassesPostFilter(line) =>
                      \E n \in DOMAIN sg.articles : sg.articles[n] = seg
                /\ ~PassesPostFilter(line) =>
                      \A n \in DOMAIN sg.articles : sg.articles[n].content # line

\* a run over two marker lines in a row, whose first is an article of the
\* output by itself
C20_Witness ==
    /\ sg.pc = "done"
    /\ 1 \in BareMarkers
    /\ Len(sg.articles) >= 2
    /\ sg.articles[1].content = ContentLines(sg.lines)[1]
    /\ sg.articles[2].content # sg.articles[1].content


-----------------------------------------------------------------------------
(* Properties of the article numbers *)

\* C21: article numbers are unique within their document: no two rows of
\* legal_articles with the same law_id carry the same number, and no two
\* articles of one segmenter output carry the same number.
C21_NumbersUniqueInDocument ==
    /\ \A i, j \in DOMAIN db.articles :
          (i # j /\ db.articles[i].law_id = db.articles[j].law_id) =>
              db.articles[i].number # db.articles[j].number
    /\ sg.pc = "done" =>
          \A i, j \in DOMAIN sg.articles :
              i # j => sg.articles[i].number # sg.articles[j].number


-----------------------------------------------------------------------------
(* Properties of the stored content *)

\* C22: no article with empty content is ever stored: every row of
\* legal_articles and every record of the collection has a content that is
\* not the empty text, whatever add_document and import_from_json calls
\* were made.
C22_NoEmptyContentStored ==
    /\ \A i \in DOMAIN db.articles : db.articles[i].content # SqlText(<<>>)
    /\ \A i \in DOMAIN vec : vec[i].document # PyStr(<<>>)


-----------------------------------------------------------------------------
(* Properties of the document ids *)

\* an id that uuid.uuid4() gave
Generated(id) == id.t = "str" /\ id.v # <<>> /\ id.v[1] < 0

\* C23: document ids are unique in legal_documents; every row of
\* legal_articles has the law_id of a row of legal_documents; and once
\* add_document has returned, the document has an id, which is new to the
\* store when uuid4 gave it, its row is stored under it once, and the rows
\* of its articles carry it as their law_id.
C23_DocumentIds ==
    /\ \A i, j \in DOMAIN db.documents :
          i # j => db.documents[i].id # db.documents[j].id
    /\ \A i \in DOMAIN db.articles :
          \E j \in DOMAIN db.documents : db.documents[j].id = db.articles[i].law_id
    /\ lastPut.status = "returned" =>
          /\ lastPut.doc.id.t = "str" /\ lastPut.doc.id.v # <<>>
          /\ Generated(lastPut.doc.id) =>
                \A j \in DOMAIN lastPut.pre.documents :
                    lastPut.pre.documents[j].id # Adapt(lastPut.doc.id)
          /\ Cardinality({j \in DOMAIN db.documents :
                             db.documents[j].id = Adapt(lastPut.doc.id)}) = 1
          /\ \A k \in DOMAIN lastPut.doc.articles :
                \E i \in DOMAIN db.articles :
                    /\ db.articles[i].id = Adapt(lastPut.doc.articles[k].id)
                    /\ db.articles[i].law_id = Adapt(lastPut.doc.id)

\* a second add_document that returned, for a document without an id and
\* with two articles, on a store that held a document
C23_Witness ==
    /\ lastPut.status = "returned"
    /\ Generated(lastPut.doc.id)
    /\ Len(lastPut.doc.articles) = 2
    /\ Len(lastPut.pre.documents) = 1
    /\ Len(db.documents) = 2


-----------------------------------------------------------------------------
(* Properties of the steps of a filtered search *)

\* the search under way holds the answer of the vector query
VectorQueryDone ==
    \E s \in QueryResults(vec, HashEmbed(rd.q.v), rd.k) :
        rd.results = FormatResults(vec, HashEmbed(rd.q.v), s)

\* C24: a search uses the two stores one after the other.  While its SQLite
\* connection is open the vector query has been answered; the step that
\* queries the collection begins with no connection of the search open; and
\* once the join has been left, by return or by exception, the connection
\* is closed, or was never made when sqlite3.connect itself raised.
C24_StoresUsedInTurn ==
    /\ [](rd.pc = "query" => rd.conn = "open" /\ VectorQueryDone)
    /\ [][rd'.pc = "join" => rd.pc = "idle"]_vars
    /\ []((obs.op = "search" /\ obs.joined) =>
              /\ obs.conn \in {"none", "closed"}
              /\ obs.conn = "none" => obs.raised /\ obs.fault = "store")

\* a search whose SELECT raised after the connection had been opened
C24_Witness ==
    /\ obs.op = "search" /\ obs.joined
    /\ obs.raised /\ obs.fault = "store"
    /\ obs.conn = "closed"
    /\ obs.top # <<>>


-----------------------------------------------------------------------------
(* Properties of the filter keys *)

\* the five keys that _apply_sql_filters reads
FilterKeys == {"document_type", "category", "tags", "date_after", "date_before"}

\* C25: search_similar with a filter dictionary that has a key outside the
\* five recognized keys raises an error; the key is not passed over in
\* silence.
C25_UnknownKeyRejected ==
    (/\ obs.op = "search"
     /\ obs.filters.t = "dict"
     /\ ~(DOMAIN obs.filters.v \subseteq FilterKeys)) =>
        obs.raised


-----------------------------------------------------------------------------
(* Properties of the two stores taken together *)

\* C26: whenever no add_document call is under way, also after one that
\* raised and was rolled back, the records of the collection and the rows
\* of legal_articles correspond one to one: the article of every record has
\* a committed row whose embedding_id is the key of the record, and every
\* row has the record that its embedding_id names.
C26_StoresCorrespond ==
    w.pc = "idle" =>
        /\ \A i \in DOMAIN vec :
              \E j \in DOMAIN db.articles :
                  /\ db.articles[j].id = Adapt(vec[i].metadata.article_id)
                  /\ db.articles[j].embedding_id = Adapt(vec[i].id)
        /\ \A j \in DOMAIN db.articles :
              \E i \in DOMAIN vec :
                  /\ Adapt(vec[i].id) = db.articles[j].embedding_id
                  /\ Adapt(vec[i].metadata.article_id) = db.articles[j].id


-----------------------------------------------------------------------------
(* Properties of add_document on ids that are taken *)

\* the document of the latest call came with the id of a stored document,
\* or with an article under the id of a stored article
IdTaken ==
    \/ \E r \in Range(lastPut.pre.documents) : r.id = Adapt(lastPut.doc.id)
    \/ \E k \in DOMAIN lastPut.doc.articles :
          ArticleStored(lastPut.pre, lastPut.doc.articles[k].id)

\* C27: add_document of a document whose id, or one of whose article ids,
\* the SQL store already holds raises and leaves both stores as they were
\* before the call: the rows are the same and so are the records of the
\* collection.
C27_TakenIdChangesNothing ==
    (lastPut.status \in {"raised", "returned"} /\ IdTaken) =>
        /\ lastPut.status = "raised"
        /\ db = lastPut.pre
        /\ vec = lastPut.prevec


-----------------------------------------------------------------------------
(* Properties of the results of a filtered search *)

\* C28: with a filter dictionary that is not empty, every result that
\* search_similar returns is an article with a committed row in
\* legal_articles under a document that has its row in legal_documents, and
\* carries the columns of the two rows as sql_metadata; a candidate of the
\* vector query that has no such rows is not returned.
C28_FilteredResultsAreStored ==
    (/\ obs.op = "search" /\ ~obs.raised
     /\ obs.filters.t = "dict" /\ DOMAIN obs.filters.v # {}) =>
        \A j \in DOMAIN obs.results :
            /\ "sql_metadata" \in DOMAIN obs.results[j]
            /\ \E a \in Range(db.articles), d \in Range(db.documents) :
                  /\ a.id = Adapt(obs.results[j].metadata.article_id)
                  /\ a.law_id = d.id
                  /\ Adapt(obs.results[j].sql_metadata.article_id) = a.id
                  /\ Adapt(obs.results[j].sql_metadata.number) = a.number
                  /\ Adapt(obs.results[j].sql_metadata.content) = a.content
                  /\ Adapt(obs.results[j].sql_metadata.law_id) = d.id
                  /\ Adapt(obs.results[j].sql_metadata.title) = d.title
                  /\ Adapt(obs.results[j].sql_metadata.document_type) = d.document_type
                  /\ Adapt(obs.results[j].sql_metadata.category) = d.category

\* a filtered search whose vector query gave two candidates, one of them
\* the record that a rolled-back add_document left behind, and that
\* returned the other one alone
C28_Witness ==
    /\ obs.op = "search" /\ ~obs.raised
    /\ obs.filters.t = "dict" /\ DOMAIN obs.filters.v # {}
    /\ Len(obs.top) = 2
    /\ Len(obs.results) = 1
    /\ \E i \in DOMAIN obs.top :
          ~ArticleStored(db, obs.top[i].metadata.article_id)
    /\ lastPut.status = "returned"


\* C29: a filtered search returns each article at most once, also when the
\* document of an article carries several of the requested tags: no two
\* results have the same article id, and the list is not longer than the
\* list of candidates that the vector query gave, which has at most k.
C29_EachArticleOnce ==
    (obs.op = "search" /\ obs.joined /\ ~obs.raised) =>
        /\ \A i, j \in DOMAIN obs.results :
              obs.results[i].metadata.article_id = obs.results[j].metadata.article_id
                 => i = j
        /\ Len(obs.results) <= Len(obs.top)
        /\ Len(obs.top) <= obs.k

\* a search for two tags that returned an article of a committed document
\* which carries both of them
C29_Witness ==
    /\ obs.op = "search" /\ obs.joined /\ ~obs.raised
    /\ "tags" \in DOMAIN obs.filters.v
    /\ \E j \in DOMAIN obs.results :
          Cardinality({x \in db.tags :
                          /\ x.document_id = Adapt(obs.results[j].sql_metadata.law_id)
                          /\ \E y \in Range(obs.filters.v["tags"]) : x.tag = Adapt(y)}) = 2


-----------------------------------------------------------------------------
(* Properties of import_from_json *)

NotErrorRecord(rec) == ~rec.error

\* the records before position i that have no "error" key
RecordsBefore(i) == SelectSeq(SubSeq(imp.data, 1, i - 1), NotErrorRecord)

\* the stored document doc is the one built from the record rec, and its
\* rows and records are in the two stores
ImportedAs(doc, rec) ==
    /\ doc.title = (IF rec.title.t = "absent" THEN PyStr(TxtUnknown) ELSE rec.title)
    /\ Len(doc.articles) = Len(rec.articles)
    /\ \A m \in DOMAIN rec.articles :
          /\ doc.articles[m].content =
                (IF rec.articles[m].content.t = "absent" THEN PyStr(<<>>)
                 ELSE rec.articles[m].content)
          /\ \E r \in Range(db.articles) :
                /\ r.id = Adapt(doc.articles[m].id)
                /\ r.law_id = Adapt(doc.id)
                /\ r.content = Adapt(doc.articles[m].content)
          /\ HasRecord(vec, doc.articles[m].embedding_id)
    /\ \E r \in Range(db.documents) : r.id = Adapt(doc.id) /\ r.title = Adapt(doc.title)

\* C30: import_from_json passes over every record with the key "error" and
\* calls add_document once for each other record, in the order of the file,
\* every call committing by itself.  At any moment of the call the documents
\* stored by it are those of the records without "error" before the present
\* position, in order, and they are committed in both stores; when
\* add_document raises, the call raises at that record, which is not an
\* error record, the documents before it stay stored, and no later record
\* is imported.
C30_ImportInOrder ==
    imp.pc \in {"loop", "put", "raised", "returned"} =>
        /\ Len(imp.stored) = Len(RecordsBefore(imp.i))
        /\ \A k \in DOMAIN imp.stored :
              ImportedAs(imp.stored[k], RecordsBefore(imp.i)[k])
        /\ imp.pc = "returned" => imp.i = Len(imp.data) + 1
        /\ imp.pc = "raised" =>
              /\ imp.i <= Len(imp.data) /\ ~imp.data[imp.i].error
              /\ lastPut.status = "raised"
              /\ db = lastPut.pre
        /\ (imp.pc = "loop" /\ imp.i > 1 /\ ~imp.data[imp.i - 1].error) =>
              lastPut.status = "returned"

\* an import that raised at its third record, after it had passed over an
\* error record and stored one document
C30_Witness ==
    /\ imp.pc = "raised" /\ imp.i = 3
    /\ Len(imp.stored) = 1
    /\ \E k \in 1..2 : imp.data[k].error
    /\ Len(db.documents) = 1

=============================================================================
